---- MODULE Spec2Model ----
(***************************************************************************)
(* State-machine model of the MeshChile FAQ agent: the Redis conversation  *)
(* store (app/models/session.py), the agent's message cycle                *)
(* (app/core/agent.py) and the activation logic of the four platform       *)
(* adapters (app/adapters/*.py).                                           *)
(*                                                                         *)
(* Text is modelled as a sequence of one-character strings, so that the    *)
(* adapters' strip / lower / regular-expression tests are computed on the  *)
(* characters as the Python code computes them.                            *)
(***************************************************************************)
EXTENDS Integers, Sequences, FiniteSets, TLC

(***************************************************************************)
(* Bounds of the model.                                                    *)
(***************************************************************************)
\* processing runs (one per handled inbound message) in a behaviour
MaxTasks == 2
\* largest configured MAX_SESSION_MESSAGES that Init draws
MaxConfiguredMessages == 3
\* largest configured SESSION_TTL, in clock ticks, that Init draws
MaxConfiguredTtl == 2
\* polling cycles of the WhatsApp Web adapter in a behaviour
MaxPolls == 3
\* environment faults (Redis outages, runs whose send fails) in a behaviour
MaxFaults == 2

None == "None"

(***************************************************************************)
(* Characters and Python string helpers.                                   *)
(***************************************************************************)
Whitespace == {" ", "\n", "\t"}

\* characters of the model's alphabet that are not \w for Python's re
NonWordChars == Whitespace \cup {",", ":", "?", "@", "<", ">", "!", "/", "[", "]", "."}

IsWordChar(c) == c \notin NonWordChars

IsDigit(c) == c \in {"0", "1", "2", "3", "4", "5", "6", "7", "8", "9"}

LowerChar(c) ==
    CASE c = "H" -> "h"
      [] c = "B" -> "b"
      [] c = "M" -> "m"
      [] c = "C" -> "c"
      [] OTHER -> c

\* str.lower()
lower(s) == [i \in 1..Len(s) |-> LowerChar(s[i])]

\* s[from:] (1-based from)
Drop(s, from) == SubSeq(s, from, Len(s))

\* str.lstrip() / str.rstrip() / str.strip()
RECURSIVE lstrip(_)
lstrip(s) == IF s # <<>> /\ s[1] \in Whitespace THEN lstrip(Tail(s)) ELSE s

RECURSIVE rstrip(_)
rstrip(s) ==
    IF s # <<>> /\ s[Len(s)] \in Whitespace THEN rstrip(SubSeq(s, 1, Len(s) - 1)) ELSE s

strip(s) == rstrip(lstrip(s))

\* lit occurs in s at position i
HasAt(s, i, lit) ==
    /\ i >= 1
    /\ i + Len(lit) - 1 <= Len(s)
    /\ SubSeq(s, i, i + Len(lit) - 1) = lit

\* Python's `lit in s`
Contains(s, lit) == \E i \in 1..(Len(s) + 1) : HasAt(s, i, lit)

\* " ".join(s.split()): whitespace runs collapse to one blank, ends are trimmed
RECURSIVE collapse(_)
collapse(s) ==
    IF s = <<>> THEN <<>>
    ELSE IF s[1] \in Whitespace
         THEN LET r == lstrip(s) IN IF r = <<>> THEN <<>> ELSE <<" ">> \o collapse(r)
         ELSE <<s[1]>> \o collapse(Tail(s))

join_split(s) == collapse(strip(s))

\* s[:n]
Prefix(s, n) == SubSeq(s, 1, IF Len(s) < n THEN Len(s) ELSE n)

\* regex \b after a literal that ends in a word character, the literal ending at
\* position j of s: the next character is absent or not a word character
BoundaryAfter(s, j) == j >= Len(s) \/ ~IsWordChar(s[j + 1])

\* regex \b before a literal that starts with a word character at position i
BoundaryBefore(s, i) == i = 1 \/ ~IsWordChar(s[i - 1])

\* re.search(lit + r'\b', s) for a literal ending in a word character
SearchWordEnd(s, lit) ==
    \E i \in 1..Len(s) : HasAt(s, i, lit) /\ BoundaryAfter(s, i + Len(lit) - 1)

\* re.sub(lit + r'\b', '', s, flags=re.IGNORECASE): every non-overlapping match,
\* scanning from the left, is removed
RECURSIVE SubWordEnd(_, _)
SubWordEnd(s, lit) ==
    IF s = <<>> THEN <<>>
    ELSE IF HasAt(lower(s), 1, lit) /\ BoundaryAfter(s, Len(lit))
         THEN SubWordEnd(Drop(s, Len(lit) + 1), lit)
         ELSE <<s[1]>> \o SubWordEnd(Tail(s), lit)

\* re.sub(re.escape(lit), '', s, flags=re.IGNORECASE)
RECURSIVE SubLiteral(_, _)
SubLiteral(s, lit) ==
    IF s = <<>> THEN <<>>
    ELSE IF HasAt(lower(s), 1, lit)
         THEN SubLiteral(Drop(s, Len(lit) + 1), lit)
         ELSE <<s[1]>> \o SubLiteral(Tail(s), lit)

\* the characters of the class [,:\s]
SepChars == Whitespace \cup {",", ":"}

RECURSIVE DropSeps(_)
DropSeps(s) == IF s # <<>> /\ s[1] \in SepChars THEN DropSeps(Tail(s)) ELSE s

\* re.search('^' + lit + r'[,:\s]', s)
SearchPrefixSep(s, lit) ==
    HasAt(s, 1, lit) /\ Len(s) > Len(lit) /\ s[Len(lit) + 1] \in SepChars

\* re.sub('^' + lit + r'[,:\s]+', '', s, flags=re.IGNORECASE)
SubPrefixSep1(s, lit) ==
    IF SearchPrefixSep(lower(s), lit) THEN DropSeps(Drop(s, Len(lit) + 1)) ELSE s

\* re.sub('^' + lit + r'[,:\s]*', '', s, flags=re.IGNORECASE)
SubPrefixSep0(s, lit) ==
    IF HasAt(lower(s), 1, lit) THEN DropSeps(Drop(s, Len(lit) + 1)) ELSE s

\* re.search('^' + lit + r'\b', s) for a literal ending in a word character
SearchPrefixWord(s, lit) == HasAt(s, 1, lit) /\ BoundaryAfter(s, Len(lit))

\* re.search(r'\bbot\b.*\?', s): the word bot, then a question mark later on the
\* same line
SearchBotQuestion(s) ==
    \E i \in 1..Len(s) :
        /\ HasAt(s, i, <<"b", "o", "t">>)
        /\ BoundaryBefore(s, i)
        /\ BoundaryAfter(s, i + 2)
        /\ \E j \in (i + 3)..Len(s) :
              /\ s[j] = "?"
              /\ \A k \in (i + 3)..(j - 1) : s[k] # "\n"

\* length of the native Discord mention <@id> or <@!id> that starts s, else 0
RECURSIVE DigitRun(_)
DigitRun(s) == IF s # <<>> /\ IsDigit(s[1]) THEN 1 + DigitRun(Tail(s)) ELSE 0

NativeMentionLen(s) ==
    IF ~HasAt(s, 1, <<"<", "@">>) THEN 0
    ELSE LET bang == IF Len(s) >= 3 /\ s[3] = "!" THEN 1 ELSE 0
             d == DigitRun(Drop(s, 3 + bang))
             close == 2 + bang + d + 1
         IN IF d >= 1 /\ Len(s) >= close /\ s[close] = ">" THEN close ELSE 0

\* re.sub(r'<@!?\d+>', '', s)
RECURSIVE SubNativeMention(_)
SubNativeMention(s) ==
    IF s = <<>> THEN <<>>
    ELSE IF NativeMentionLen(s) > 0
         THEN SubNativeMention(Drop(s, NativeMentionLen(s) + 1))
         ELSE <<s[1]>> \o SubNativeMention(Tail(s))

(***************************************************************************)
(* String literals of the adapters, as character sequences.                *)
(***************************************************************************)
s_at_bot == <<"@", "b", "o", "t">>
s_at_asistente == <<"@", "a", "s", "i", "s", "t", "e", "n", "t", "e">>
s_at_meshchile == <<"@", "m", "e", "s", "h", "c", "h", "i", "l", "e">>
s_bot == <<"b", "o", "t">>
s_asistente == <<"a", "s", "i", "s", "t", "e", "n", "t", "e">>
s_hey_bot == <<"h", "e", "y", " ", "b", "o", "t">>
s_hola_bot == <<"h", "o", "l", "a", " ", "b", "o", "t">>
s_slash_start == <<"/", "s", "t", "a", "r", "t">>
s_start == <<"s", "t", "a", "r", "t">>
s_hola == <<"h", "o", "l", "a">>
s_ayuda == <<"a", "y", "u", "d", "a">>
s_help == <<"h", "e", "l", "p">>
s_usuario == "Usuario"

\* "[Respondiendo a: " and the closers used by the reply context
s_reply_open == <<"[", "R", "e", "s", "p", "o", "n", "d", "i", "e", "n", "d", "o", " ", "a", ":", " ">>
s_reply_close == <<"]">>
s_reply_dots == <<".", ".", ".", "]">>
s_two_newlines == <<"\n", "\n">>

\* the bot's identity on each platform
BotUsername == <<"m", "e", "s", "h", "b", "o", "t">>
BotDiscordName == <<"m", "e", "s", "h", "b", "o", "t">>
BotDiscordId == <<"4", "2">>

\* bot_indicators of WhatsAppWebAdapter._is_reply_to_bot (the three emoji are
\* single characters, written here by name)
BotIndicators ==
    { <<"M", "e", "s", "h", "C", "h", "i", "l", "e">>,
      <<"M", "e", "s", "h", "t", "a", "s", "t", "i", "c">>,
      <<"emoji_link">>, <<"emoji_antenna">>, <<"emoji_flag_cl">>,
      <<"c", "o", "n", "f", "i", "g", "u", "r", "a", "c", "i", "ó", "n">>,
      <<"n", "o", "d", "o", "s">>,
      <<"r", "e", "d", " ", "m", "e", "s", "h">> }

(***************************************************************************)
(* Inbound events.  An event is a record                                   *)
(*   plat    the adapter that receives it                                  *)
(*   kind    "direct" (private chat, DM) or "group" (group, guild channel) *)
(*   chat    chat / channel / group id (WhatsApp Web: the chat name)       *)
(*   thread  message_thread_id (Telegram forum topics) or None             *)
(*   user    sender id; it also serves as the sender's display name        *)
(*   text    the text of the message; <<>> for a message with no text      *)
(*   reply   author of the message this one replies to: "none", "bot" or   *)
(*           "other" (the platform's ground truth)                         *)
(*   quoted  text of the replied-to message (<<>> when reply = "none")     *)
(***************************************************************************)
Platforms == {"telegram", "discord", "whatsapp_api", "whatsapp_web"}

\* the decision of an adapter for one inbound message
Dropped == [act |-> "drop"]
Canned(which, to, thread) == [act |-> "canned", canned |-> which, to |-> to, thread |-> thread]
ToAgent(text, sid, platform, to, thread, name, kind) ==
    [act |-> "agent", text |-> text, sid |-> sid, platform |-> platform,
     to |-> to, thread |-> thread, name |-> name, kind |-> kind]

(***************************************************************************)
(* Telegram adapter (app/adapters/telegram.py).                            *)
(***************************************************************************)
\* _is_bot_mentioned: reply to the bot, or "@username" inside the text.  The
\* entity test (method 3) compares a slice of the text with "@username" and so
\* can only succeed when the substring test (method 2) already has.
telegram_is_bot_mentioned(text, reply, bot_username) ==
    IF text = <<>> \/ bot_username = None THEN FALSE
    ELSE \/ reply = "bot"
         \/ Contains(lower(text), lower(<<"@">> \o bot_username))

telegram_clean_mention_from_text(text, bot_username) ==
    IF bot_username = None \/ text = <<>> THEN text
    ELSE join_split(strip(SubLiteral(text, lower(<<"@">> \o bot_username))))

telegram_get_session_id(chat, user, chat_type, thread) ==
    IF chat_type = "private" THEN "telegram_private_" \o chat \o "_" \o user
    ELSE IF thread # None THEN "telegram_group_" \o chat \o "_thread_" \o thread
    ELSE "telegram_group_" \o chat

TelegramGroupCommands == {s_slash_start, s_start, s_hola, s_ayuda, s_help}

telegram_handle_private_message(ev) ==
    ToAgent(ev.text, telegram_get_session_id(ev.chat, ev.user, "private", None),
            "telegram_private", ev.chat, None, ev.user, "direct")

telegram_handle_group_message(ev, bot_username) ==
    IF ~telegram_is_bot_mentioned(ev.text, ev.reply, bot_username) THEN Dropped
    ELSE LET clean_text == strip(telegram_clean_mention_from_text(ev.text, bot_username))
         IN IF lower(clean_text) \in TelegramGroupCommands
               THEN Canned("welcome", ev.chat, ev.thread)
            ELSE IF clean_text = <<>>
               THEN Canned("prompt", ev.chat, ev.thread)
            ELSE ToAgent(clean_text,
                         telegram_get_session_id(ev.chat, ev.user, "group", ev.thread),
                         "telegram_group", ev.chat, ev.thread, ev.user, "group")

telegram_process_message(ev, bot_username) ==
    IF ev.kind = "direct" THEN telegram_handle_private_message(ev)
    ELSE telegram_handle_group_message(ev, bot_username)

(***************************************************************************)
(* Discord adapter (app/adapters/discord.py).                              *)
(***************************************************************************)
\* message.mentions holds the users named by <@id> / <@!id> tokens of the content
discord_mentions_bot(content) ==
    \/ Contains(content, <<"<", "@">> \o BotDiscordId \o <<">">>)
    \/ Contains(content, <<"<", "@", "!">> \o BotDiscordId \o <<">">>)

discord_is_bot_mentioned(content) ==
    \/ discord_mentions_bot(content)
    \/ LET content_lower == strip(lower(content))
       IN \/ SearchWordEnd(content_lower, s_at_bot)
          \/ SearchWordEnd(content_lower, s_at_asistente)
          \/ SearchWordEnd(content_lower, s_at_meshchile)
          \/ SearchWordEnd(content_lower, <<"@">> \o lower(BotDiscordName))
          \/ SearchPrefixSep(content_lower, s_bot)
          \/ SearchPrefixSep(content_lower, s_asistente)
          \/ SearchPrefixWord(content_lower, s_hey_bot)
          \/ SearchPrefixWord(content_lower, s_hola_bot)

\* message.reference.resolved.author.id == bot_user_id, and the quoted content[:100]
discord_is_reply_to_bot(reply, quoted) ==
    IF reply = "bot" THEN <<TRUE, Prefix(quoted, 100)>> ELSE <<FALSE, <<>>>>

discord_clean_mention_from_text(text) ==
    IF text = <<>> THEN text
    ELSE LET t1 == SubNativeMention(text)
             t2 == SubWordEnd(t1, s_at_bot)
             t3 == SubWordEnd(t2, s_at_asistente)
             t4 == SubWordEnd(t3, s_at_meshchile)
             t5 == SubPrefixSep1(t4, s_bot)
             t6 == SubPrefixSep1(t5, s_asistente)
             t7 == SubPrefixSep0(t6, s_hey_bot)
             t8 == SubPrefixSep0(t7, s_hola_bot)
         IN strip(t8)

discord_get_session_id(kind, author, guild, channel) ==
    IF kind = "direct" THEN "discord_dm_" \o author
    ELSE "discord_guild_" \o guild \o "_channel_" \o channel

\* the guild a channel belongs to
GuildOf(channel) == "g1"

DiscordCommands == {s_hola, s_start, s_ayuda, s_help}

\* _process_with_agent: the reply context is put in front of the content
discord_agent_content(content, reply_context) ==
    IF reply_context # <<>>
    THEN s_reply_open \o reply_context \o s_reply_close \o s_two_newlines \o strip(content)
    ELSE strip(content)

discord_handle_direct_message(ev) ==
    LET content == strip(ev.text)
    IN IF lower(content) \in DiscordCommands THEN Canned("welcome", ev.chat, None)
       ELSE IF Len(content) < 2 THEN Canned("prompt", ev.chat, None)
       ELSE ToAgent(discord_agent_content(ev.text, <<>>),
                    discord_get_session_id("direct", ev.user, GuildOf(ev.chat), ev.chat),
                    "discord_dm", ev.chat, None, ev.user, "direct")

discord_handle_guild_message(ev) ==
    LET content == strip(ev.text)
        is_mentioned == discord_is_bot_mentioned(ev.text)
        r == discord_is_reply_to_bot(ev.reply, ev.quoted)
    IN IF ~is_mentioned /\ ~r[1] THEN Dropped
       ELSE LET clean_content == strip(discord_clean_mention_from_text(content))
            IN IF lower(clean_content) \in DiscordCommands
                  THEN Canned("welcome", ev.chat, None)
               ELSE IF clean_content = <<>>
                  THEN Canned("prompt", ev.chat, None)
               ELSE ToAgent(discord_agent_content(clean_content, r[2]),
                            discord_get_session_id("group", ev.user, GuildOf(ev.chat), ev.chat),
                            "discord_guild", ev.chat, None, ev.user, "group")

discord_process_message(ev) ==
    IF strip(ev.text) = <<>> THEN Dropped
    ELSE IF ev.kind = "direct" THEN discord_handle_direct_message(ev)
    ELSE discord_handle_guild_message(ev)

(***************************************************************************)
(* WhatsApp adapters: the seven mention patterns and the clean-up they     *)
(* share (whatsapp_api.py and whatsapp_web.py carry the same lists).       *)
(***************************************************************************)
whatsapp_mention_patterns(text_lower) ==
    \/ SearchWordEnd(text_lower, s_at_bot)
    \/ SearchWordEnd(text_lower, s_at_asistente)
    \/ SearchWordEnd(text_lower, s_at_meshchile)
    \/ SearchPrefixSep(text_lower, s_bot)
    \/ SearchPrefixSep(text_lower, s_asistente)
    \/ SearchPrefixWord(text_lower, s_hey_bot)
    \/ SearchPrefixWord(text_lower, s_hola_bot)

whatsapp_clean_mention_from_text(text) ==
    IF text = <<>> THEN text
    ELSE LET t2 == SubWordEnd(text, s_at_bot)
             t3 == SubWordEnd(t2, s_at_asistente)
             t4 == SubWordEnd(t3, s_at_meshchile)
             t5 == SubPrefixSep1(t4, s_bot)
             t6 == SubPrefixSep1(t5, s_asistente)
             t7 == SubPrefixSep0(t6, s_hey_bot)
             t8 == SubPrefixSep0(t7, s_hola_bot)
         IN strip(t8)

(***************************************************************************)
(* WhatsApp Business API adapter (app/adapters/whatsapp_api.py).           *)
(***************************************************************************)
whatsapp_api_is_bot_mentioned(message_text) ==
    IF message_text = <<>> THEN FALSE
    ELSE whatsapp_mention_patterns(strip(lower(message_text)))

\* context.from == bot_phone_number
whatsapp_api_is_reply_to_bot(reply) == reply = "bot"

\* "[Respondiendo a: {quoted_body[:100]}...]" when the quoted message is the bot's
whatsapp_api_get_reply_context(reply, quoted) ==
    IF reply = "bot" /\ quoted # <<>>
    THEN s_reply_open \o Prefix(quoted, 100) \o s_reply_dots
    ELSE <<>>

whatsapp_api_get_session_id(from_phone, chat_type, group_id) ==
    IF chat_type = "individual" THEN "whatsapp_api_private_" \o from_phone
    ELSE "whatsapp_api_group_" \o (IF group_id # None THEN group_id ELSE from_phone)

WhatsAppApiCommands == {s_hola, s_slash_start, s_start, s_ayuda, s_help}

whatsapp_api_agent_text(text, reply, quoted) ==
    LET reply_context == whatsapp_api_get_reply_context(reply, quoted)
    IN IF reply_context # <<>> THEN reply_context \o s_two_newlines \o text ELSE text

whatsapp_api_handle_private_message(ev) ==
    IF lower(ev.text) \in WhatsAppApiCommands THEN Canned("welcome", ev.chat, None)
    ELSE IF ev.text = <<>> \/ Len(strip(ev.text)) < 2 THEN Canned("prompt", ev.chat, None)
    ELSE ToAgent(whatsapp_api_agent_text(ev.text, ev.reply, ev.quoted),
                 whatsapp_api_get_session_id(ev.chat, "individual", None),
                 "whatsapp_api_individual", ev.chat, None, ev.user, "direct")

\* a group handler that hands an activated message to the agent also when
\* nothing is left of its text
whatsapp_api_handle_group_message_no_prompt(ev) ==
    LET is_mentioned == whatsapp_api_is_bot_mentioned(ev.text)
        is_reply == whatsapp_api_is_reply_to_bot(ev.reply)
    IN IF ~is_mentioned /\ ~is_reply THEN Dropped
       ELSE LET clean_text == strip(whatsapp_clean_mention_from_text(ev.text))
            IN IF lower(clean_text) \in WhatsAppApiCommands
                  THEN Canned("welcome", ev.chat, None)
               ELSE ToAgent(whatsapp_api_agent_text(clean_text, ev.reply, ev.quoted),
                            whatsapp_api_get_session_id(ev.chat, "group", ev.chat),
                            "whatsapp_api_group", ev.chat, None, ev.user, "group")

whatsapp_api_handle_group_message(ev) ==
    LET is_mentioned == whatsapp_api_is_bot_mentioned(ev.text)
        is_reply == whatsapp_api_is_reply_to_bot(ev.reply)
    IN IF ~is_mentioned /\ ~is_reply THEN Dropped
       ELSE LET clean_text == strip(whatsapp_clean_mention_from_text(ev.text))
            IN IF lower(clean_text) \in WhatsAppApiCommands
                  THEN Canned("welcome", ev.chat, None)
               ELSE IF clean_text = <<>>
                  THEN Canned("prompt", ev.chat, None)
               ELSE ToAgent(whatsapp_api_agent_text(clean_text, ev.reply, ev.quoted),
                            whatsapp_api_get_session_id(ev.chat, "group", ev.chat),
                            "whatsapp_api_group", ev.chat, None, ev.user, "group")

\* a message of a type other than "text" carries no text body
whatsapp_api_process_message(ev) ==
    IF ev.text = <<>> THEN Dropped
    ELSE IF ev.kind = "direct" THEN whatsapp_api_handle_private_message(ev)
    ELSE whatsapp_api_handle_group_message(ev)

(***************************************************************************)
(* WhatsApp Web adapter (app/adapters/whatsapp_web.py).                    *)
(***************************************************************************)
whatsapp_web_is_bot_mentioned(message_text, chat_type) ==
    IF message_text = <<>> \/ chat_type # "group" THEN FALSE
    ELSE LET text_lower == strip(lower(message_text))
         IN whatsapp_mention_patterns(text_lower) \/ SearchBotQuestion(text_lower)

\* the quoted text "looks like" the bot's: it holds an indicator or is long
whatsapp_web_is_reply_to_bot(reply, quoted) ==
    IF reply = "none" THEN <<FALSE, <<>>>>
    ELSE LET quoted_text == strip(quoted)
             text_lower == lower(quoted_text)
         IN IF \E indicator \in BotIndicators : Contains(text_lower, lower(indicator))
               THEN <<TRUE, Prefix(quoted_text, 100)>>
            ELSE IF Len(quoted_text) > 100
               THEN <<TRUE, Prefix(quoted_text, 100)>>
            ELSE <<FALSE, <<>>>>

whatsapp_web_get_session_id(chat_name, chat_type, sender_name) ==
    IF chat_type = "private"
    THEN "whatsapp_web_private_" \o chat_name \o "_"
         \o (IF sender_name # None THEN sender_name ELSE "unknown")
    ELSE "whatsapp_web_group_" \o chat_name

WhatsAppWebCommands == {s_hola, s_start, s_ayuda, s_help}

\* the sender is read from the bubble in groups only
whatsapp_web_sender(ev) == IF ev.kind = "group" THEN ev.user ELSE s_usuario

\* _extract_message_data: the first non-blank text of the bubble, stripped;
\* None for a bubble without text
whatsapp_web_extract_text(ev) == strip(ev.text)

whatsapp_web_agent_text(text, reply_context) ==
    IF reply_context # <<>>
    THEN s_reply_open \o reply_context \o s_reply_close \o s_two_newlines \o text
    ELSE text

whatsapp_web_handle_private_message(ev, message_text, reply_context) ==
    IF lower(message_text) \in WhatsAppWebCommands THEN Canned("welcome", ev.chat, None)
    ELSE ToAgent(whatsapp_web_agent_text(message_text, reply_context),
                 whatsapp_web_get_session_id(ev.chat, "private", whatsapp_web_sender(ev)),
                 "whatsapp_web_private", ev.chat, None, whatsapp_web_sender(ev), "direct")

whatsapp_web_handle_group_message(ev, message_text, is_reply, reply_context) ==
    LET is_mentioned == whatsapp_web_is_bot_mentioned(message_text, "group")
    IN IF ~is_mentioned /\ ~is_reply THEN Dropped
       ELSE LET clean_text == strip(whatsapp_clean_mention_from_text(message_text))
            IN IF lower(clean_text) \in WhatsAppWebCommands
                  THEN Canned("welcome", ev.chat, None)
               ELSE IF clean_text = <<>>
                  THEN Canned("prompt", ev.chat, None)
               ELSE ToAgent(whatsapp_web_agent_text(clean_text, reply_context),
                            whatsapp_web_get_session_id(ev.chat, "group", whatsapp_web_sender(ev)),
                            "whatsapp_web_group", ev.chat, None, whatsapp_web_sender(ev), "group")

whatsapp_web_process_message(ev) ==
    LET message_text == whatsapp_web_extract_text(ev)
        r == whatsapp_web_is_reply_to_bot(ev.reply, ev.quoted)
    IN IF message_text = <<>> THEN Dropped
       ELSE IF ev.kind = "direct"
          THEN whatsapp_web_handle_private_message(ev, message_text, r[2])
       ELSE whatsapp_web_handle_group_message(ev, message_text, r[1], r[2])

\* the decision of the receiving adapter
AdapterDecision(ev, bot_username) ==
    CASE ev.plat = "telegram" -> telegram_process_message(ev, bot_username)
      [] ev.plat = "discord" -> discord_process_message(ev)
      [] ev.plat = "whatsapp_api" -> whatsapp_api_process_message(ev)
      [] ev.plat = "whatsapp_web" -> whatsapp_web_process_message(ev)

(***************************************************************************)
(* Conversation store (app/models/session.py) and agent (app/core/agent.py)*)
(***************************************************************************)
VARIABLES
    max_messages,        \* settings.MAX_SESSION_MESSAGES
    session_ttl,         \* settings.SESSION_TTL, in clock ticks
    procs,               \* the application processes that share the Redis server
    redis,               \* Redis: key -> [data, ttl]; a missing key is outside DOMAIN
    redis_up,            \* whether a Redis command succeeds right now
    bot_username,        \* TelegramAdapter.bot_username (None until getMe answered)
    tasks,               \* processing runs: one coroutine per handled inbound message
    loop,                \* per process: the run that holds the event loop (0: none)
    outbox,              \* per run: the calls made to the platform's outbound sender
    dom,                 \* WhatsApp Web: incoming message bubbles visible in the chats
    processed_messages,  \* WhatsAppWebAdapter.processed_messages
    web_queue,           \* WhatsApp Web: new_messages of the current polling cycle
    polls,               \* WhatsApp Web: polling cycles so far (the poll's clock time)
    faults,              \* environment faults so far: Redis outages and runs whose send failed
    log,                 \* history: per session, the turns written since its key was last absent
    quiet,               \* history: per session, no storage fault or expiry has hit an append since then
    calls,               \* history: the calls of _get_session_id made so far, with their results
    running,             \* per polling listener: adapter.running, its polling task is alive
    prompts,             \* history: the requests built for the backend, with their arguments
    api,                 \* the last call of the session query surface and what it returned
    tg,                  \* the Telegram adapter's polling: offset, polling_task, its loops, the server's updates
    wa,                  \* WhatsAppManager: _initialized, active_adapter, preferred_method, its two adapters
    dc,                  \* DiscordManager: _initialized, bot_task, its adapter's running flag, shutdown's position
    checked              \* history: the last call of _is_new_message on the small set: its id and its answer

vars == <<max_messages, session_ttl, procs, redis, redis_up, bot_username, tasks, loop,
          outbox, dom, processed_messages, web_queue, polls, faults, log, quiet, calls,
          running, prompts, api, tg, wa, dc, checked>>

Procs == {"p1", "p2"}

TaskIds == 1..MaxTasks

\* the adapters that receive their messages in a polling task
Listeners == {"telegram", "whatsapp_web"}

\* the last n elements of a sequence: context[-n:]
LastN(seq, n) == IF Len(seq) > n THEN SubSeq(seq, Len(seq) - n + 1, Len(seq)) ELSE seq

\* a key that is the same for every session
get_session_key_shared(session_id) == "bot_session:"

\* _get_session_key
get_session_key(session_id) == "bot_session:" \o session_id

\* json.dumps of a list of turns, and json.loads of what was stored
json_dumps(context) == [type |-> "list", items |-> context]
json_decodable(data) == data.type \in {"list", "other"}
json_loads(data) == IF data.type = "list" THEN data.items ELSE data

\* redis_client.get: nil for a missing key
Nil == [type |-> "nil"]
redis_get(key) == IF key \in DOMAIN redis THEN redis[key].data ELSE Nil

\* redis_client.delete on the store r
redis_delete(r, key) == [k \in DOMAIN r \ {key} |-> r[k]]

\* redis_client.setex on the store r
redis_setex(r, key, ttl, data) ==
    [k \in DOMAIN r \cup {key} |-> IF k = key THEN [data |-> data, ttl |-> ttl] ELSE r[k]]

\* a get_context that renews the key's time to live when it reads it
get_context_touching(session_id) ==
    LET session_key == get_session_key(session_id)
        data == redis_get(session_key)
    IN IF ~redis_up THEN [context |-> <<>>, store |-> redis]
       ELSE IF data = Nil THEN [context |-> <<>>, store |-> redis]
       ELSE [context |-> json_loads(data),
             store |-> redis_setex(redis, session_key, session_ttl, data)]

\* get_context: [context, store]: the list it returns and the store it leaves
\* (a stored value that does not decode is deleted; one that is no list reads as [])
get_context(session_id) ==
    LET session_key == get_session_key(session_id)
        data == redis_get(session_key)
    IN IF ~redis_up THEN [context |-> <<>>, store |-> redis]
       ELSE IF data = Nil THEN [context |-> <<>>, store |-> redis]
       ELSE IF ~json_decodable(data)
          THEN [context |-> <<>>, store |-> redis_delete(redis, session_key)]
       ELSE IF data.type = "list" THEN [context |-> json_loads(data), store |-> redis]
       ELSE [context |-> <<>>, store |-> redis]

\* clear_session: [result, store]: a Redis error is swallowed and gives False
clear_session(session_id) ==
    IF ~redis_up THEN [result |-> FALSE, store |-> redis]
    ELSE [result |-> get_session_key(session_id) \in DOMAIN redis,
          store |-> redis_delete(redis, get_session_key(session_id))]

\* DELETE /session/{session_id}: the HTTP status of the answer.  The
\* HTTPException(404) is raised inside the try block and HTTPException is an
\* Exception: the handler's except clause takes it and raises the 500
delete_session_status(success) ==
    IF success THEN 200 ELSE 500

\* list_active_sessions among the ids: the keys bot_session:* without their
\* prefix; a Redis error is swallowed and gives []
list_active_sessions(ids) ==
    IF ~redis_up THEN {}
    ELSE {session_id \in ids : get_session_key(session_id) \in DOMAIN redis}

\* get_session_info: [info, store]: get_context, then the key's TTL; the Redis
\* error of the TTL command gives the error record
get_session_info(session_id) ==
    LET r == get_context(session_id)
        session_key == get_session_key(session_id)
    IN IF ~redis_up
       THEN [info |-> [message_count |-> 0, ttl_seconds |-> None, exists |-> FALSE,
                       error |-> TRUE],
             store |-> r.store]
       ELSE [info |-> [message_count |-> Len(r.context),
                       ttl_seconds |-> IF session_key \in DOMAIN r.store
                                       THEN r.store[session_key].ttl ELSE None,
                       exists |-> Len(r.context) > 0,
                       error |-> FALSE],
             store |-> r.store]

\* a trim that keeps the oldest turns instead of the newest
trim_context_keep_oldest(context, message) ==
    LET appended == Append(context, message)
    IN IF Len(appended) > max_messages THEN SubSeq(appended, 1, max_messages) ELSE appended

\* an append that puts the new turn in front of the history
trim_context_prepend(context, message) ==
    LET appended == <<message>> \o context
    IN IF Len(appended) > max_messages THEN LastN(appended, max_messages) ELSE appended

\* add_message after its read: append, keep the last max_messages, write with the TTL
trim_context(context, message) ==
    LET appended == Append(context, message)
    IN IF Len(appended) > max_messages THEN LastN(appended, max_messages) ELSE appended

\* the turns stored for a session, as a reader sees them
Stored(session_id) ==
    LET key == get_session_key(session_id)
    IN IF key \in DOMAIN redis /\ redis[key].data.type = "list"
       THEN redis[key].data.items ELSE <<>>

\* the turns process_message stores; `run` tells the turns of one run from another's
\* (it stands for the timestamp the two turns of a run share)
user_turn(t) ==
    [role |-> "user", content |-> tasks[t].dec.text, platform |-> tasks[t].dec.platform,
     user_id |-> tasks[t].ev.user, run |-> t]
assistant_turn(t) ==
    [role |-> "assistant", content |-> tasks[t].resp, platform |-> tasks[t].dec.platform,
     run |-> t]

\* the reply of process_message when anything in it raised
AgentApology == "Lo siento, hubo un problema procesando tu mensaje."
\* the adapters' own error reply
AdapterApology == "Disculpa, tuve un problema procesando tu pregunta."
\* what the completion backend answers
BackendAnswer == "answer"

\* a map with no keys
EmptyMap == [k \in {} |-> None]

LogOf(session_id) == IF session_id \in DOMAIN log THEN log[session_id] ELSE <<>>
QuietOf(session_id) == IF session_id \in DOMAIN quiet THEN quiet[session_id] ELSE TRUE

NoEvent == [plat |-> None]

\* a processing run that has not started
IdleTask ==
    [pc |-> "idle", proc |-> None, ev |-> NoEvent, src |-> 0, dec |-> Dropped,
     ctx |-> <<>>, buf |-> <<>>, resp |-> None, fault |-> FALSE, trace |-> <<>>,
     writes |-> 0, after |-> {}]

\* runs that are between the read and the write of an add_message on session_id
MidAppend(session_id) ==
    {t \in TaskIds : /\ tasks[t].pc \in {"add_user_set", "add_assistant_set"}
                     /\ tasks[t].dec.sid = session_id}

\* runs whose two appends are behind them
AppendsDone ==
    {t \in TaskIds : /\ tasks[t].pc \in {"send", "send_error", "done"}
                     /\ tasks[t].dec.act = "agent"
                     /\ tasks[t].resp = BackendAnswer}

Finished(t) == tasks[t].pc \in {"done", "dropped"}

\* TelegramAdapter.__init__: offset 0, running False, polling_task None; no
\* polling loop was created, no update was sent to the bot
TgInit ==
    [offset |-> 0, running |-> FALSE, polling_task |-> 0, loops |-> <<>>, stop_wait |-> 0,
     server |-> <<>>, arrived |-> 0, handled |-> <<>>, replied |-> {}]

\* WhatsAppManager.__init__: no adapter, active_adapter None, preferred_method
\* "auto", not initialized; last: what the last initialization attempted
WaInit ==
    [initialized |-> FALSE, active_adapter |-> None, preferred_method |-> "auto",
     api_adapter |-> "none", web_adapter |-> "none",
     last |-> [method |-> "none", api |-> "skipped", web |-> "skipped", restart |-> FALSE]]

\* DiscordManager.__init__: no adapter, no bot task, not initialized; no
\* shutdown was called
DcInit ==
    [initialized |-> FALSE, adapter |-> FALSE, running |-> FALSE, bot_task |-> "none",
     cancel |-> FALSE, pc |-> "idle", was_running |-> FALSE, stopped |-> FALSE,
     closed |-> FALSE, shut |-> FALSE]

\* no call of the session query surface yet
NoCall == [call |-> "none"]

InitCommon ==
    /\ max_messages \in 1..MaxConfiguredMessages
    /\ session_ttl \in 1..MaxConfiguredTtl
    /\ redis = EmptyMap
    /\ redis_up = TRUE
    /\ tasks = [t \in TaskIds |-> IdleTask]
    /\ loop = [p \in Procs |-> 0]
    /\ outbox = [t \in TaskIds |-> <<>>]
    /\ dom = <<>>
    /\ processed_messages = {}
    /\ web_queue = <<>>
    /\ polls = 0
    /\ faults = 0
    /\ log = EmptyMap
    /\ quiet = EmptyMap
    /\ calls = <<>>
    /\ running = [l \in Listeners |-> TRUE]
    /\ prompts = <<>>
    /\ api = NoCall
    /\ tg = TgInit
    /\ wa = WaInit
    /\ dc = DcInit
    /\ checked = [id |-> 0, new |-> FALSE]

\* two application processes on one Redis server, started up
Init ==
    /\ InitCommon
    /\ procs = Procs
    /\ bot_username = BotUsername

\* a single application process, started up
InitSingle ==
    /\ InitCommon
    /\ procs = {"p1"}
    /\ bot_username = BotUsername

\* a single application process with the largest configuration, starting up
InitEvent ==
    /\ InitCommon
    /\ procs = {"p1"}
    /\ bot_username = None
    /\ max_messages = MaxConfiguredMessages
    /\ session_ttl = MaxConfiguredTtl

Managers == <<tg, wa, dc, checked>>
Settings == <<max_messages, session_ttl, procs, calls, running, prompts, api, Managers>>
Config == <<Settings, faults>>
Store == <<redis, log, quiet>>
Web == <<dom, processed_messages, web_queue, polls>>

\* the adapters whose handler reaches get_context without an await in between
SyncToAgent(plat) == plat \in {"whatsapp_api", "whatsapp_web"}

\* inbound messages so far: WhatsApp Web bubbles and the other platforms' deliveries
Inbound ==
    Len(dom) + Cardinality({t \in TaskIds : /\ tasks[t].pc # "idle"
                                            /\ tasks[t].ev.plat # "whatsapp_web"})

\* the task state after the adapter's _process_message has decided
Started(p, ev, src, dec) ==
    [IdleTask EXCEPT !.pc = CASE dec.act = "drop" -> "dropped"
                             [] dec.act = "canned" -> "send"
                             [] OTHER -> "ctx",
                     !.proc = p, !.ev = ev, !.src = src, !.dec = dec]

\* Telegram update / Discord on_message / WhatsApp API webhook: the adapter's
\* _process_message up to its first await (n bounds the inbound messages)
Receive(t, p, ev, n) ==
    /\ Inbound < n
    /\ tasks[t].pc = "idle"
    /\ \A u \in 1..(t - 1) : tasks[u].pc # "idle"
    /\ p \in procs
    /\ loop[p] = 0
    /\ ev.plat # "whatsapp_web"
    /\ ev.plat \in Listeners => running[ev.plat]
    /\ LET dec == AdapterDecision(ev, bot_username)
       IN /\ tasks' = [tasks EXCEPT ![t] = Started(p, ev, 0, dec)]
          /\ loop' = [loop EXCEPT ![p] =
                        IF dec.act = "agent" /\ SyncToAgent(ev.plat) THEN t ELSE 0]
    /\ UNCHANGED <<Config, Store, Web, redis_up, bot_username, outbox>>

\* process_message: session_context = await get_context(session_id), then the
\* request to the backend is started
GetContext(t) ==
    /\ tasks[t].pc = "ctx"
    /\ loop[tasks[t].proc] \in {0, t}
    /\ LET r == get_context(tasks[t].dec.sid)
       IN /\ redis' = r.store
          /\ tasks' = [tasks EXCEPT ![t].pc = "backend", ![t].ctx = r.context,
                                    ![t].writes = IF r.store = redis THEN @ ELSE @ + 1,
                                    ![t].trace = Append(@, "get_context")]
    /\ loop' = [loop EXCEPT ![tasks[t].proc] = 0]
    /\ UNCHANGED <<Config, Web, log, quiet, redis_up, bot_username, outbox>>

\* chat_completion returned a reply; process_message runs on, without an await,
\* into the read of its first add_message
BackendOk(t) ==
    /\ tasks[t].pc = "backend"
    /\ loop[tasks[t].proc] = 0
    /\ tasks' = [tasks EXCEPT ![t].pc = "add_user_get", ![t].resp = BackendAnswer,
                              ![t].after = AppendsDone,
                              ![t].trace = Append(@, "backend_ok")]
    /\ loop' = [loop EXCEPT ![tasks[t].proc] = t]
    /\ UNCHANGED <<Config, Store, Web, redis_up, bot_username, outbox>>

\* a process_message that stores the user's turn although the backend call failed
BackendFailStoringTurn(t) ==
    /\ tasks[t].pc = "backend"
    /\ loop[tasks[t].proc] = 0
    /\ redis_up
    /\ redis' = redis_setex(redis, get_session_key(tasks[t].dec.sid), session_ttl,
                            json_dumps(trim_context(get_context(tasks[t].dec.sid).context,
                                                    user_turn(t))))
    /\ tasks' = [tasks EXCEPT ![t].pc = "send", ![t].resp = AgentApology,
                              ![t].writes = @ + 1,
                              ![t].trace = Append(@, "backend_failed")]
    /\ UNCHANGED <<Config, Web, log, quiet, redis_up, bot_username, outbox, loop>>

\* a backend failure that is raised on into the polling loop and ends it
BackendFailStopsListener(t) ==
    /\ tasks[t].pc = "backend"
    /\ loop[tasks[t].proc] = 0
    /\ tasks' = [tasks EXCEPT ![t].pc = "send", ![t].resp = AgentApology,
                              ![t].trace = Append(@, "backend_failed")]
    /\ running' = [l \in Listeners |-> running[l] /\ l # tasks[t].ev.plat]
    /\ UNCHANGED <<Managers, max_messages, session_ttl, procs, api, calls, prompts, faults, Store, Web,
                   redis_up, bot_username, outbox, loop>>

\* a backend failure that no except branch catches: the run ends without a reply
BackendFailUncaught(t) ==
    /\ tasks[t].pc = "backend"
    /\ loop[tasks[t].proc] = 0
    /\ tasks' = [tasks EXCEPT ![t].pc = "raised",
                              ![t].trace = Append(@, "backend_failed")]
    /\ UNCHANGED <<Config, Store, Web, redis_up, bot_username, outbox, loop>>

\* a process_message that calls the backend a second time after a failed call
BackendFailRetrying(t) ==
    /\ tasks[t].pc = "backend"
    /\ loop[tasks[t].proc] = 0
    /\ LET again == \A i \in 1..Len(tasks[t].trace) : tasks[t].trace[i] # "backend_failed"
       IN tasks' = [tasks EXCEPT
              ![t].pc = IF again THEN "backend" ELSE "send",
              ![t].resp = IF again THEN @ ELSE AgentApology,
              ![t].trace = Append(@, "backend_failed")]
    /\ UNCHANGED <<Config, Store, Web, redis_up, bot_username, outbox, loop>>

\* chat_completion raised (timeout, status other than 200, connection error):
\* the except branch of process_message returns the apology
BackendFail(t) ==
    /\ tasks[t].pc = "backend"
    /\ loop[tasks[t].proc] = 0
    /\ tasks' = [tasks EXCEPT ![t].pc = "send", ![t].resp = AgentApology,
                              ![t].trace = Append(@, "backend_failed")]
    /\ UNCHANGED <<Config, Store, Web, redis_up, bot_username, outbox, loop>>

\* add_message, first half: context = await get_context(session_id)
AddGet(t) ==
    /\ tasks[t].pc \in {"add_user_get", "add_assistant_get"}
    /\ loop[tasks[t].proc] = t
    /\ LET r == get_context(tasks[t].dec.sid)
       IN /\ redis' = r.store
          /\ tasks' = [tasks EXCEPT
                 ![t].pc = IF @ = "add_user_get" THEN "add_user_set" ELSE "add_assistant_set",
                 ![t].buf = r.context,
                 ![t].fault = ~redis_up,
                 ![t].writes = IF r.store = redis THEN @ ELSE @ + 1,
                 ![t].trace = Append(@, "get")]
    /\ UNCHANGED <<Config, Web, log, quiet, redis_up, bot_username, outbox, loop>>

\* a process_message that stores the assistant's turn first and the user's second
AddSetAssistantFirst(t) ==
    /\ tasks[t].pc \in {"add_user_set", "add_assistant_set"}
    /\ loop[tasks[t].proc] = t
    /\ LET user == tasks[t].pc = "add_user_set"
           message == IF user THEN assistant_turn(t) ELSE user_turn(t)
           sid == tasks[t].dec.sid
           context == trim_context(tasks[t].buf, message)
       IN /\ IF redis_up
             THEN /\ redis' = redis_setex(redis, get_session_key(sid), session_ttl,
                                          json_dumps(context))
                  /\ log' = [k \in DOMAIN log \cup {sid} |->
                                IF k = sid THEN Append(LogOf(sid), message) ELSE log[k]]
                  /\ quiet' = [k \in DOMAIN quiet \cup {sid} |->
                                IF k = sid THEN QuietOf(sid) /\ ~tasks[t].fault ELSE quiet[k]]
             ELSE UNCHANGED Store
          /\ tasks' = [tasks EXCEPT
                 ![t].pc = IF user THEN "add_assistant_get" ELSE "send",
                 ![t].buf = <<>>,
                 ![t].fault = FALSE,
                 ![t].writes = IF redis_up THEN @ + 1 ELSE @,
                 ![t].trace = Append(@, IF user THEN "add_user" ELSE "add_assistant")]
          /\ loop' = [loop EXCEPT ![tasks[t].proc] = IF user THEN t ELSE 0]
    /\ UNCHANGED <<Config, Web, redis_up, bot_username, outbox>>

\* an add_message whose Redis error reaches the except branch of process_message
AddSetRaising(t) ==
    /\ tasks[t].pc \in {"add_user_set", "add_assistant_set"}
    /\ loop[tasks[t].proc] = t
    /\ LET user == tasks[t].pc = "add_user_set"
           message == IF user THEN user_turn(t) ELSE assistant_turn(t)
           sid == tasks[t].dec.sid
           context == trim_context(tasks[t].buf, message)
       IN /\ IF redis_up
             THEN /\ redis' = redis_setex(redis, get_session_key(sid), session_ttl,
                                          json_dumps(context))
                  /\ log' = [k \in DOMAIN log \cup {sid} |->
                                IF k = sid THEN Append(LogOf(sid), message) ELSE log[k]]
                  /\ quiet' = [k \in DOMAIN quiet \cup {sid} |->
                                IF k = sid THEN QuietOf(sid) /\ ~tasks[t].fault ELSE quiet[k]]
             ELSE UNCHANGED Store
          /\ tasks' = [tasks EXCEPT
                 ![t].pc = IF ~redis_up THEN "send"
                           ELSE IF user THEN "add_assistant_get" ELSE "send",
                 ![t].resp = IF ~redis_up THEN AgentApology ELSE @,
                 ![t].buf = <<>>,
                 ![t].fault = FALSE,
                 ![t].writes = IF redis_up THEN @ + 1 ELSE @,
                 ![t].trace = Append(@, IF redis_up
                                        THEN (IF user THEN "add_user" ELSE "add_assistant")
                                        ELSE (IF user THEN "add_user_failed"
                                              ELSE "add_assistant_failed"))]
          /\ loop' = [loop EXCEPT ![tasks[t].proc] = IF user /\ redis_up THEN t ELSE 0]
    /\ UNCHANGED <<Config, Web, redis_up, bot_username, outbox>>

\* add_message, second half: append, trim, setex with the TTL; a Redis error is
\* logged and swallowed.  After the assistant's turn process_message returns and
\* the adapter awaits its sender.
AddSet(t) ==
    /\ tasks[t].pc \in {"add_user_set", "add_assistant_set"}
    /\ loop[tasks[t].proc] = t
    /\ LET user == tasks[t].pc = "add_user_set"
           message == IF user THEN user_turn(t) ELSE assistant_turn(t)
           sid == tasks[t].dec.sid
           context == trim_context(tasks[t].buf, message)
       IN /\ IF redis_up
             THEN /\ redis' = redis_setex(redis, get_session_key(sid), session_ttl,
                                          json_dumps(context))
                  /\ log' = [k \in DOMAIN log \cup {sid} |->
                                IF k = sid THEN Append(LogOf(sid), message) ELSE log[k]]
                  /\ quiet' = [k \in DOMAIN quiet \cup {sid} |->
                                IF k = sid THEN QuietOf(sid) /\ ~tasks[t].fault ELSE quiet[k]]
             ELSE UNCHANGED Store
          /\ tasks' = [tasks EXCEPT
                 ![t].pc = IF user THEN "add_assistant_get" ELSE "send",
                 ![t].buf = <<>>,
                 ![t].fault = FALSE,
                 ![t].writes = IF redis_up THEN @ + 1 ELSE @,
                 ![t].trace = Append(@, IF redis_up
                                        THEN (IF user THEN "add_user" ELSE "add_assistant")
                                        ELSE (IF user THEN "add_user_failed"
                                              ELSE "add_assistant_failed"))]
          /\ loop' = [loop EXCEPT ![tasks[t].proc] = IF user THEN t ELSE 0]
    /\ UNCHANGED <<Config, Web, redis_up, bot_username, outbox>>

\* Telegram's _send_message posts the text up to three times, each time in
\* another format, until one post answers 200
TelegramSendModes == <<"plain", "HTML", "MarkdownV2">>

\* the message an adapter hands to its sender: the canned text, or the agent's
\* reply, prefixed with the user's name in a group
OutboundBody(t) ==
    LET d == tasks[t].dec
    IN IF d.act = "canned" THEN [text |-> d.canned, prefix |-> None]
       ELSE [text |-> tasks[t].resp,
             prefix |-> IF d.kind = "group" THEN d.name ELSE None]

\* the text of Discord's except branches
DiscordProcessApology == "Disculpa, tuve un problema procesando tu mensaje."

ErrorBody(t) ==
    LET d == tasks[t].dec
    IN IF d.act = "canned" THEN [text |-> DiscordProcessApology, prefix |-> None]
       ELSE [text |-> AdapterApology,
             prefix |-> IF d.kind = "group" THEN d.name ELSE None]

SendCall(t, body, mode, ok) ==
    [text |-> body.text, prefix |-> body.prefix, to |-> tasks[t].dec.to,
     thread |-> tasks[t].dec.thread, mode |-> mode, ok |-> ok]

\* a Telegram sender that goes on to the next format after a post that succeeded
SendKeepsRetrying(t, ok) ==
    /\ tasks[t].pc = "send"
    /\ loop[tasks[t].proc] = 0
    /\ ok \/ outbox[t] # <<>> \/ faults < MaxFaults
    /\ faults' = IF ~ok /\ outbox[t] = <<>> THEN faults + 1 ELSE faults
    /\ LET plat == tasks[t].ev.plat
           n == Len(outbox[t])
           mode == IF plat = "telegram" THEN TelegramSendModes[n + 1] ELSE "plain"
       IN /\ outbox' = [outbox EXCEPT ![t] = Append(@, SendCall(t, OutboundBody(t), mode, ok))]
          /\ tasks' = [tasks EXCEPT
                 ![t].pc = IF plat = "telegram" /\ n + 1 < Len(TelegramSendModes) THEN "send"
                           ELSE IF ok THEN "done"
                           ELSE IF plat = "discord" THEN "send_error"
                           ELSE "done",
                 ![t].trace = Append(@, "send")]
    /\ UNCHANGED <<Settings, Store, Web, redis_up, bot_username, loop>>

\* a sender that raises to its caller when its last attempt has failed
SendRaises(t, ok) ==
    /\ tasks[t].pc = "send"
    /\ loop[tasks[t].proc] = 0
    /\ ok \/ outbox[t] # <<>> \/ faults < MaxFaults
    /\ faults' = IF ~ok /\ outbox[t] = <<>> THEN faults + 1 ELSE faults
    /\ LET plat == tasks[t].ev.plat
           n == Len(outbox[t])
           mode == IF plat = "telegram" THEN TelegramSendModes[n + 1] ELSE "plain"
       IN /\ outbox' = [outbox EXCEPT ![t] = Append(@, SendCall(t, OutboundBody(t), mode, ok))]
          /\ tasks' = [tasks EXCEPT
                 ![t].pc = IF ok THEN "done"
                           ELSE IF plat = "telegram" /\ n + 1 < Len(TelegramSendModes) THEN "send"
                           ELSE "send_error",
                 ![t].trace = Append(@, "send")]
    /\ UNCHANGED <<Settings, Store, Web, redis_up, bot_username, loop>>

\* one call of the platform's send API by the adapter's sender returns: it
\* succeeded (ok) or failed.  Telegram posts again in the next format; a failed
\* Discord send raises into the except branch; the WhatsApp senders return False.
Send(t, ok) ==
    /\ tasks[t].pc = "send"
    /\ loop[tasks[t].proc] = 0
    /\ ok \/ outbox[t] # <<>> \/ faults < MaxFaults
    /\ faults' = IF ~ok /\ outbox[t] = <<>> THEN faults + 1 ELSE faults
    /\ LET plat == tasks[t].ev.plat
           n == Len(outbox[t])
           mode == IF plat = "telegram" THEN TelegramSendModes[n + 1] ELSE "plain"
       IN /\ outbox' = [outbox EXCEPT ![t] = Append(@, SendCall(t, OutboundBody(t), mode, ok))]
          /\ tasks' = [tasks EXCEPT
                 ![t].pc = IF ok THEN "done"
                           ELSE IF plat = "discord" THEN "send_error"
                           ELSE IF plat = "telegram" /\ n + 1 < Len(TelegramSendModes) THEN "send"
                           ELSE "done",
                 ![t].trace = Append(@, "send")]
    /\ UNCHANGED <<Settings, Store, Web, redis_up, bot_username, loop>>

\* Discord's except branch: the error text is sent once, a failure is ignored
SendError(t, ok) ==
    /\ tasks[t].pc = "send_error"
    /\ loop[tasks[t].proc] = 0
    /\ outbox' = [outbox EXCEPT ![t] = Append(@, SendCall(t, ErrorBody(t), "plain", ok))]
    /\ tasks' = [tasks EXCEPT ![t].pc = "done", ![t].trace = Append(@, "send_error")]
    /\ UNCHANGED <<Config, Store, Web, redis_up, bot_username, loop>>

\* one tick of the Redis clock: every key's time to live goes down by one and a
\* key that reaches zero is deleted
Tick ==
    /\ DOMAIN redis # {}
    /\ LET expired == {k \in DOMAIN redis : redis[k].ttl = 1}
           gone == {sid \in DOMAIN log : get_session_key(sid) \in expired}
       IN /\ redis' = [k \in DOMAIN redis \ expired |-> [redis[k] EXCEPT !.ttl = @ - 1]]
          /\ log' = [sid \in DOMAIN log \ gone |-> log[sid]]
          /\ quiet' = [sid \in DOMAIN quiet \ gone |-> quiet[sid]]
          /\ tasks' = [t \in TaskIds |->
                         IF \E sid \in gone : t \in MidAppend(sid)
                         THEN [tasks[t] EXCEPT !.fault = TRUE] ELSE tasks[t]]
    /\ UNCHANGED <<Config, Web, redis_up, bot_username, outbox, loop>>

\* DELETE /session/{session_id}: clear_session deletes the key (a delete that
\* finds no key or fails changes nothing)
ClearSession(p, session_id) ==
    /\ p \in procs
    /\ loop[p] = 0
    /\ redis_up
    /\ get_session_key(session_id) \in DOMAIN redis
    /\ redis' = redis_delete(redis, get_session_key(session_id))
    /\ log' = [sid \in DOMAIN log \ {session_id} |-> log[sid]]
    /\ quiet' = [sid \in DOMAIN quiet \ {session_id} |-> quiet[sid]]
    /\ tasks' = [t \in TaskIds |->
                    IF t \in MidAppend(session_id)
                    THEN [tasks[t] EXCEPT !.fault = TRUE] ELSE tasks[t]]
    /\ UNCHANGED <<Config, Web, redis_up, bot_username, outbox, loop>>

\* DELETE /session/{session_id} with its answer: clear_session's result
DeleteSession(p, session_id) ==
    /\ p \in procs
    /\ loop[p] = 0
    /\ LET r == clear_session(session_id)
           deleted == r.store # redis
       IN /\ redis' = r.store
          /\ api' = [call |-> "clear_session", session_id |-> session_id,
                     result |-> r.result, existed |-> get_session_key(session_id) \in DOMAIN redis,
                     status |-> delete_session_status(r.result)]
          /\ log' = IF deleted THEN [sid \in DOMAIN log \ {session_id} |-> log[sid]] ELSE log
          /\ quiet' = IF deleted THEN [sid \in DOMAIN quiet \ {session_id} |-> quiet[sid]]
                      ELSE quiet
          /\ tasks' = [t \in TaskIds |->
                          IF deleted /\ t \in MidAppend(session_id)
                          THEN [tasks[t] EXCEPT !.fault = TRUE] ELSE tasks[t]]
    /\ UNCHANGED <<Managers, max_messages, session_ttl, procs, calls, running, prompts, faults, Web,
                   redis_up, bot_username, outbox, loop>>

\* GET /session/{session_id}: get_session_info
GetSessionInfo(p, session_id) ==
    /\ p \in procs
    /\ loop[p] = 0
    /\ LET r == get_session_info(session_id)
       IN /\ redis' = r.store
          /\ api' = [call |-> "get_session_info", session_id |-> session_id,
                     result |-> r.info]
    /\ UNCHANGED <<Managers, max_messages, session_ttl, procs, calls, running, prompts, faults, Web,
                   log, quiet, redis_up, bot_username, tasks, outbox, loop>>

\* GET /sessions: list_active_sessions
ListActiveSessions(p, ids) ==
    /\ p \in procs
    /\ loop[p] = 0
    /\ api' = [call |-> "list_active_sessions", result |-> list_active_sessions(ids)]
    /\ UNCHANGED <<Managers, max_messages, session_ttl, procs, calls, running, prompts, faults, Store,
                   Web, redis_up, bot_username, tasks, outbox, loop>>

\* the Redis server stops answering / answers again
RedisDown ==
    /\ redis_up
    /\ faults < MaxFaults
    /\ faults' = faults + 1
    /\ redis_up' = FALSE
    /\ UNCHANGED <<Settings, Store, Web, bot_username, tasks, outbox, loop>>

RedisUp ==
    /\ ~redis_up
    /\ redis_up' = TRUE
    /\ UNCHANGED <<Config, Store, Web, bot_username, tasks, outbox, loop>>

\* TelegramAdapter._get_bot_info: getMe answered
TelegramGetBotInfo ==
    /\ bot_username = None
    /\ bot_username' = BotUsername
    /\ UNCHANGED <<Config, Store, Web, redis_up, tasks, outbox, loop>>

\* TelegramAdapter.__init__: a restarted process constructs its adapters anew
AdapterRestart ==
    /\ bot_username # None
    /\ bot_username' = None
    /\ UNCHANGED <<Config, Store, Web, redis_up, tasks, outbox, loop>>

(***************************************************************************)
(* The session id of an inbound message (the adapters' _get_session_id and  *)
(* the arguments their _process_with_agent passes to it).                   *)
(***************************************************************************)
MaxCalls == 2

s_chat_desconocido == "Chat desconocido"

\* _get_current_chat_info: the name of the open chat is the first title of the
\* header that is longer than two characters
whatsapp_web_chat_name(title) == IF Len(title) > 2 THEN title ELSE s_chat_desconocido

Chats == {"c1", "c2"}
Threads == {None, "7", "8"}
Users == {"u1", "u2"}
ChatTitles == {"Al", "Jo", "Ana"}

\* what identifies the origin of an inbound message: platform, chat kind, chat
\* id, thread id, user id.  A WhatsApp direct chat is the chat with its peer;
\* WhatsApp Web knows a chat by the title in its header.
SessionInput(plat, kind, chat, thread, user) ==
    [plat |-> plat, kind |-> kind, chat |-> chat, thread |-> thread, user |-> user]

SessionInputs ==
    {SessionInput("telegram", "direct", c, None, u) : c \in Chats, u \in Users}
    \cup {SessionInput("telegram", "group", c[1], c[2], u) : c \in Chats \X Threads, u \in Users}
    \cup {SessionInput("discord", k, c, None, u) : k \in {"direct", "group"}, c \in Chats, u \in Users}
    \cup {SessionInput("whatsapp_api", "direct", u, None, u) : u \in Users}
    \cup {SessionInput("whatsapp_api", "group", c, None, u) : c \in Chats, u \in Users}
    \cup {SessionInput("whatsapp_web", "direct", c, None, c) : c \in ChatTitles}
    \cup {SessionInput("whatsapp_web", "group", c, None, u) : c \in ChatTitles, u \in Users}

\* a derivation that numbers the sessions of an adapter instance
derive_session_id_numbered(in) == in.plat \o "_session_" \o ToString(Len(calls))

\* the session id _process_with_agent derives for a message of this origin
derive_session_id(in) ==
    CASE in.plat = "telegram" ->
            telegram_get_session_id(in.chat, in.user,
                                    IF in.kind = "direct" THEN "private" ELSE "group", in.thread)
      [] in.plat = "discord" ->
            discord_get_session_id(in.kind, in.user, GuildOf(in.chat), in.chat)
      [] in.plat = "whatsapp_api" ->
            IF in.kind = "direct"
            THEN whatsapp_api_get_session_id(in.chat, "individual", None)
            ELSE whatsapp_api_get_session_id(in.chat, "group", in.chat)
      [] in.plat = "whatsapp_web" ->
            whatsapp_web_get_session_id(whatsapp_web_chat_name(in.chat),
                                        IF in.kind = "direct" THEN "private" ELSE "group",
                                        IF in.kind = "group" THEN in.user ELSE s_usuario)

\* _process_with_agent derives the session id of one more message
DeriveSessionId(in) ==
    /\ Len(calls) < MaxCalls
    /\ calls' = Append(calls, [in |-> in, sid |-> derive_session_id(in),
                               named |-> bot_username # None])
    /\ UNCHANGED <<Managers, max_messages, session_ttl, procs, api, running, prompts, faults, Store, Web,
                   redis_up, bot_username, tasks, outbox, loop>>

(***************************************************************************)
(* WhatsApp Web polling (app/adapters/whatsapp_web.py).                    *)
(***************************************************************************)
\* an incoming bubble appears in its chat
WebArrive(ev, n) ==
    /\ ev.plat = "whatsapp_web"
    /\ Inbound < n
    /\ dom' = Append(dom, ev)
    /\ UNCHANGED <<Config, Store, redis_up, bot_username, tasks, outbox, loop,
                   processed_messages, web_queue, polls>>

\* _get_recent_messages_from_current_chat looks at the last bubbles of a chat
RecentWindow == 10
\* _is_new_message keeps processed_messages within bounds
ProcessedMax == 1000
ProcessedDrop == 200

\* the positions in dom that a scan of all chats looks at, in order
RecentBubbles ==
    LET SameChat(i, j) == dom[i].chat = dom[j].chat /\ dom[i].kind = dom[j].kind
        later(i) == Cardinality({j \in (i + 1)..Len(dom) : SameChat(i, j)})
    IN SelectSeq([i \in 1..Len(dom) |-> i], LAMBDA i : later(i) < RecentWindow)

\* _extract_message_data: the id of a bubble, which carries the clock's reading
\* at the time of the extraction
message_id(i, now) ==
    [chat |-> dom[i].chat, sender |-> whatsapp_web_sender(dom[i]),
     text |-> whatsapp_web_extract_text(dom[i]), timestamp |-> now]

\* _is_new_message: the possible outcomes [new, processed]; which 200 ids are
\* dropped from an overfull set is up to the set's iteration order
is_new_message_within(processed, id, max, drop) ==
    IF id \in processed THEN {[new |-> FALSE, processed |-> processed]}
    ELSE LET added == processed \cup {id}
         IN IF Cardinality(added) > max
            THEN {[new |-> TRUE, processed |-> added \ old] :
                     old \in {x \in SUBSET added : Cardinality(x) = drop}}
            ELSE {[new |-> TRUE, processed |-> added]}

is_new_message(processed, id) ==
    is_new_message_within(processed, id, ProcessedMax, ProcessedDrop)

\* _is_new_message on a set that overflows early: the limit and the number of
\* dropped ids in the source's proportion of 1000 to 200
DedupMax == 5
DedupDrop == 1
MaxIds == 7

\* one call of _is_new_message with a message id
IsNewMessage(id) ==
    /\ \E o \in is_new_message_within(processed_messages, id, DedupMax, DedupDrop) :
          /\ processed_messages' = o.processed
          /\ checked' = [id |-> id, new |-> o.new]
    /\ UNCHANGED <<max_messages, session_ttl, procs, calls, running, prompts, api, tg, wa, dc,
                   faults, Store, redis_up, bot_username, tasks, outbox, loop, dom, web_queue, polls>>

\* the scan of the bubbles: the possible outcomes [processed, queue]
RECURSIVE ScanBubbles(_, _, _, _)
ScanBubbles(bubbles, processed, queue, poll) ==
    IF bubbles = <<>> THEN {[processed |-> processed, queue |-> queue]}
    ELSE LET i == Head(bubbles)
             id == message_id(i, <<poll, i>>)
         IN IF whatsapp_web_extract_text(dom[i]) = <<>>
            THEN ScanBubbles(Tail(bubbles), processed, queue, poll)
            ELSE UNION {ScanBubbles(Tail(bubbles), o.processed,
                                    IF o.new THEN Append(queue, [src |-> i, id |-> id])
                                    ELSE queue, poll) :
                           o \in is_new_message(processed, id)}

WebBusy == \E t \in TaskIds : tasks[t].ev.plat = "whatsapp_web" /\ ~Finished(t)

\* one cycle of the polling loop: _get_new_messages opens the chats and collects
\* the bubbles that _is_new_message lets through
WebPoll ==
    /\ running["whatsapp_web"]
    /\ polls < MaxPolls
    /\ dom # <<>>
    /\ web_queue = <<>>
    /\ ~WebBusy
    /\ loop["p1"] = 0
    /\ polls' = polls + 1
    /\ \E o \in ScanBubbles(RecentBubbles, processed_messages, <<>>, polls + 1) :
          /\ processed_messages' = o.processed
          /\ web_queue' = o.queue
    /\ UNCHANGED <<Config, Store, redis_up, bot_username, tasks, outbox, loop, dom>>

\* the polling loop hands the next new message to _process_message and awaits it
WebProcess(t) ==
    /\ running["whatsapp_web"]
    /\ web_queue # <<>>
    /\ ~WebBusy
    /\ loop["p1"] = 0
    /\ tasks[t].pc = "idle"
    /\ \A u \in 1..(t - 1) : tasks[u].pc # "idle"
    /\ LET m == Head(web_queue)
           ev == dom[m.src]
           dec == AdapterDecision(ev, bot_username)
       IN /\ tasks' = [tasks EXCEPT ![t] = Started("p1", ev, m.src, dec)]
          /\ loop' = [loop EXCEPT !["p1"] = IF dec.act = "agent" THEN t ELSE 0]
    /\ web_queue' = Tail(web_queue)
    /\ UNCHANGED <<Config, Store, redis_up, bot_username, outbox, dom,
                   processed_messages, polls>>

(***************************************************************************)
(* The request to the backend (process_message, app/core/agent.py).        *)
(***************************************************************************)
MaxPrompts == 1
MaxContextLen == 12

\* process_message sends the last turns of the stored context
PromptWindow == 10

DefaultSystemPrompt == "default_system_prompt"
SystemPrompts == {None, "", "Eres un asistente"}
s_pregunta == "pregunta"

\* a stored history of n turns, the users' and the assistant's in turn; turn k,
\* if there is one, has another role
StoredContext(n, k) ==
    [i \in 1..n |-> [role |-> IF i = k THEN "system"
                               ELSE IF i % 2 = 1 THEN "user" ELSE "assistant",
                      content |-> "turn " \o ToString(i),
                      platform |-> "api"]]
StoredContexts == {StoredContext(n, k) : n \in 0..MaxContextLen, k \in 0..MaxContextLen}

\* a request that carries the whole stored context
build_messages_whole_context(system_prompt, session_context, message) ==
    LET final_system_prompt == IF system_prompt = None \/ system_prompt = ""
                               THEN DefaultSystemPrompt ELSE system_prompt
        kept == SelectSeq(session_context, LAMBDA msg : msg.role \in {"user", "assistant"})
    IN <<[role |-> "system", content |-> final_system_prompt]>>
       \o [i \in 1..Len(kept) |-> [role |-> kept[i].role, content |-> kept[i].content]]
       \o <<[role |-> "user", content |-> message]>>

\* process_message, step 2: the messages for chat_completion.  A system prompt
\* that is None or empty is falsy and gives way to the default one.
build_messages(system_prompt, session_context, message) ==
    LET final_system_prompt == IF system_prompt = None \/ system_prompt = ""
                               THEN DefaultSystemPrompt ELSE system_prompt
        recent_context == IF Len(session_context) > PromptWindow
                          THEN LastN(session_context, PromptWindow) ELSE session_context
        kept == SelectSeq(recent_context, LAMBDA msg : msg.role \in {"user", "assistant"})
    IN <<[role |-> "system", content |-> final_system_prompt]>>
       \o [i \in 1..Len(kept) |-> [role |-> kept[i].role, content |-> kept[i].content]]
       \o <<[role |-> "user", content |-> message]>>

\* process_message builds the request for one message
BuildMessages(system_prompt, session_context, message) ==
    /\ Len(prompts) < MaxPrompts
    /\ prompts' = Append(prompts,
                         [system_prompt |-> system_prompt, session_context |-> session_context,
                          message |-> message,
                          messages |-> build_messages(system_prompt, session_context, message)])
    /\ UNCHANGED <<Managers, max_messages, session_ttl, procs, api, calls, running, faults, Store, Web,
                   redis_up, bot_username, tasks, outbox, loop>>

(***************************************************************************)
(* Stopping a listener (stop_polling of the polling adapters).             *)
(***************************************************************************)
\* the runs of a listener's messages that are under way
InFlight(l) ==
    {t \in TaskIds : /\ tasks[t].ev.plat = l
                     /\ tasks[t].pc \notin {"idle", "done", "dropped", "cancelled"}}

\* the await a run is suspended in swallows a CancelledError: Telegram's
\* _send_typing_action, awaited before process_message, has a bare except
SwallowsCancel(t) == tasks[t].ev.plat = "telegram" /\ tasks[t].pc = "ctx"

\* stop_polling: running = False and polling_task.cancel().  The polling task
\* awaits _process_message, so the CancelledError is raised inside the run it
\* awaits, at the await the run is suspended in; no except Exception catches
\* it, and the loop's except asyncio.CancelledError breaks out.  The messages
\* collected by a WhatsApp Web poll and not yet processed go with the task.
StopPolling(l) ==
    /\ running[l]
    /\ loop["p1"] = 0
    /\ running' = [running EXCEPT ![l] = FALSE]
    /\ IF InFlight(l) = {} THEN UNCHANGED tasks
       ELSE \E t \in InFlight(l) :
               tasks' = [tasks EXCEPT ![t].pc = IF SwallowsCancel(t) THEN @ ELSE "cancelled"]
    /\ web_queue' = IF l = "whatsapp_web" THEN <<>> ELSE web_queue
    /\ UNCHANGED <<Managers, max_messages, session_ttl, procs, api, calls, prompts, faults, Store,
                   redis_up, bot_username, outbox, loop, dom, processed_messages, polls>>

(***************************************************************************)
(* Telegram's polling listener (app/adapters/telegram.py) and its restart  *)
(* (app/main.py, app/core/telegram_manager.py).                            *)
(***************************************************************************)
MaxUpdates == 2
MaxLoops == 3

\* everything but the Telegram listener and the bot's name
Messaging == <<max_messages, session_ttl, procs, calls, running, prompts, api, faults,
               Store, Web, redis_up, tasks, outbox, loop, wa, dc, checked>>

LoopIds == 1..Len(tg.loops)
Live(l) == tg.loops[l].pc # "ended"
NewLoop == [pc |-> "getme", batch |-> <<>>, cancel |-> FALSE]

\* getUpdates(offset): the server forgets the updates below the offset and
\* answers with the ones it still holds
Confirm(server, offset) == SelectSeq(server, LAMBDA u : u >= offset)

\* while self.running: the loop ends, or sends its next getUpdates request
LoopHead(l, T) ==
    IF T.running
    THEN [T EXCEPT !.loops[l].pc = "updates", !.loops[l].batch = <<>>,
                   !.server = Confirm(T.server, T.offset)]
    ELSE [T EXCEPT !.loops[l].pc = "ended", !.loops[l].batch = <<>>]

\* for update in updates: self.offset = update_id + 1, then _process_message
BeginUpdate(l, T) ==
    LET u == Head(T.loops[l].batch)
    IN [T EXCEPT !.offset = u + 1, !.handled = Append(@, u), !.loops[l].pc = "process"]

\* a user sends the bot a message: the server holds a new update
TgArrive ==
    /\ tg.arrived < MaxUpdates
    /\ tg' = [tg EXCEPT !.arrived = @ + 1, !.server = Append(@, tg.arrived + 1)]
    /\ UNCHANGED <<Messaging, bot_username>>

\* a start_polling without the test of self.running
StartPollingAlways ==
    /\ tg.stop_wait = 0
    /\ Len(tg.loops) < MaxLoops
    /\ tg' = [tg EXCEPT !.running = TRUE, !.loops = Append(@, NewLoop),
                        !.polling_task = Len(tg.loops) + 1]
    /\ UNCHANGED <<Messaging, bot_username>>

\* start_polling: returns at once when running, else running = True and
\* polling_task = create_task(_polling_loop()).  The managers call it once a
\* call of stop_polling on the adapter has returned.
StartPolling ==
    /\ tg.stop_wait = 0
    /\ ~tg.running
    /\ Len(tg.loops) < MaxLoops
    /\ tg' = [tg EXCEPT !.running = TRUE, !.loops = Append(@, NewLoop),
                        !.polling_task = Len(tg.loops) + 1]
    /\ UNCHANGED <<Messaging, bot_username>>

\* _polling_loop, first step: _get_bot_info; the loop returns when it failed
GetBotInfo(l, ok) ==
    /\ tg.loops[l].pc = "getme"
    /\ ~tg.loops[l].cancel
    /\ IF ok
       THEN /\ tg' = LoopHead(l, tg)
            /\ bot_username' = BotUsername
       ELSE /\ tg' = [tg EXCEPT !.loops[l].pc = "ended"]
            /\ UNCHANGED bot_username
    /\ UNCHANGED Messaging

\* _get_updates returns: the updates the server holds, or [] after an error or
\* a timeout; an empty list is followed by asyncio.sleep(1)
UpdatesReturn(l, ok) ==
    /\ tg.loops[l].pc = "updates"
    /\ ~tg.loops[l].cancel
    /\ LET updates == IF ok THEN Confirm(tg.server, tg.offset) ELSE <<>>
       IN tg' = IF updates = <<>> THEN [tg EXCEPT !.loops[l].pc = "sleep"]
                ELSE BeginUpdate(l, [tg EXCEPT !.loops[l].batch = updates])
    /\ UNCHANGED <<Messaging, bot_username>>

\* asyncio.sleep(1) is over
SleepDone(l) ==
    /\ tg.loops[l].pc = "sleep"
    /\ ~tg.loops[l].cancel
    /\ tg' = LoopHead(l, tg)
    /\ UNCHANGED <<Messaging, bot_username>>

\* _process_message returns: the reply was sent (ok), or the failure was caught
\* and logged inside it; the loop goes on with the next update of the batch
ProcessDone(l, ok) ==
    /\ tg.loops[l].pc = "process"
    /\ ~tg.loops[l].cancel
    /\ LET u == Head(tg.loops[l].batch)
           T == [tg EXCEPT !.replied = IF ok THEN @ \cup {u} ELSE @,
                           !.loops[l].batch = Tail(@)]
       IN tg' = IF T.loops[l].batch = <<>> THEN LoopHead(l, T) ELSE BeginUpdate(l, T)
    /\ UNCHANGED <<Messaging, bot_username>>

\* the CancelledError is raised at the await the loop is suspended in: it ends
\* the task, unless the await is that of _send_typing_action, whose bare except
\* swallows it
CancelDelivered(l, swallowed) ==
    /\ Live(l)
    /\ tg.loops[l].cancel
    /\ swallowed => tg.loops[l].pc = "process"
    /\ tg' = [tg EXCEPT !.loops[l].cancel = FALSE,
                        !.loops[l].pc = IF swallowed THEN @ ELSE "ended",
                        !.loops[l].batch = IF swallowed THEN @ ELSE <<>>]
    /\ UNCHANGED <<Messaging, bot_username>>

\* stop_polling up to its await: running = False, polling_task.cancel(); for a
\* task that has finished the await returns at once
StopPollingBegin ==
    /\ tg.stop_wait = 0
    /\ tg.running \/ tg.polling_task # 0
    /\ LET l == tg.polling_task
       IN tg' = IF l = 0 THEN [tg EXCEPT !.running = FALSE]
                ELSE IF ~Live(l) THEN [tg EXCEPT !.running = FALSE, !.polling_task = 0]
                ELSE [tg EXCEPT !.running = FALSE, !.loops[l].cancel = TRUE,
                                !.stop_wait = l]
    /\ UNCHANGED <<Messaging, bot_username>>

\* stop_polling after its await: the awaited task has ended, polling_task = None
StopPollingEnd ==
    /\ tg.stop_wait # 0
    /\ ~Live(tg.stop_wait)
    /\ tg' = [tg EXCEPT !.polling_task = 0, !.stop_wait = 0]
    /\ UNCHANGED <<Messaging, bot_username>>

\* POST /telegram/restart once the old manager is shut down: a new
\* TelegramManager with a new TelegramAdapter, whose polling is started
RestartTelegram ==
    /\ tg.stop_wait = 0
    /\ \A l \in LoopIds : ~Live(l)
    /\ Len(tg.loops) < MaxLoops
    /\ tg' = [tg EXCEPT !.offset = 0, !.running = TRUE, !.loops = Append(@, NewLoop),
                        !.polling_task = Len(tg.loops) + 1]
    /\ bot_username' = None
    /\ UNCHANGED Messaging

(***************************************************************************)
(* Inbound messages.                                                       *)
(***************************************************************************)
t_none == <<>>
t_blank == << " " >>
t_x == << "x" >>
t_que == <<"q", "u", "e">>
t_Hola == <<"H", "o", "l", "a">>
t_at_bot == <<"@", "b", "o", "t">>
t_at_bot_que == <<"@", "b", "o", "t", " ", "q", "u", "e">>
t_at_meshbot_que == <<"@", "M", "e", "s", "h", "b", "o", "t", " ", " ", "q", "u", "e">>
t_native_que == <<"<", "@", "4", "2", ">", " ", "q", "u", "e">>
t_bot_comma_que == <<"b", "o", "t", ",", " ", "q", "u", "e">>
t_bot_question == <<"e", "l", " ", "b", "o", "t", " ", "q", "?">>
q_ok == <<"o", "k">>
q_nodos == <<"M", "i", "s", " ", "n", "o", "d", "o", "s">>
\* a quoted text of more than 100 characters
q_long == [i \in 1..101 |-> "a"]

Event(plat, kind, thread, user, text, reply, quoted) ==
    [plat |-> plat, kind |-> kind, chat |-> "c1", thread |-> thread, user |-> user,
     text |-> text, reply |-> reply, quoted |-> quoted]

Texts == {t_none, t_blank, t_x, t_que, t_Hola, t_at_bot, t_at_bot_que, t_at_meshbot_que,
          t_native_que, t_bot_comma_que, t_bot_question}

\* what a message replies to: nothing, a message of the bot, a message of somebody else
Replies == {<<"none", <<>>>>, <<"bot", q_ok>>, <<"other", q_nodos>>}

\* the quotes that WhatsApp Web's reply heuristic tells apart
WebReplies == Replies \cup {<<"other", q_ok>>, <<"other", q_long>>, <<"bot", q_nodos>>}

\* every kind of inbound message, of one user in one chat
AllEvents ==
    {Event(plat, kind, None, "u1", text, r[1], r[2]) :
        plat \in Platforms \ {"whatsapp_web"}, kind \in {"direct", "group"},
        text \in Texts, r \in Replies}
    \cup {Event("whatsapp_web", "direct", None, "u1", text, r[1], r[2]) :
        text \in Texts, r \in Replies}
    \cup {Event("whatsapp_web", "group", None, "u1", text, r[1], r[2]) :
        text \in Texts, r \in WebReplies}
    \cup {Event("telegram", "group", "7", "u1", text, r[1], r[2]) :
        text \in Texts, r \in Replies}

\* the messages of the runs that share the store: a Discord channel, a Telegram
\* private chat, a WhatsApp Web group; two runs can be on one session or on two
CoreEvents ==
    {Event("discord", "group", None, "u1", t_at_bot_que, "none", <<>>),
     Event("telegram", "direct", None, "u1", t_que, "none", <<>>),
     Event("whatsapp_web", "group", None, "u1", t_at_bot_que, "none", <<>>)}

\* the core messages and a group message that does not address the bot
LiveEvents ==
    CoreEvents \cup {Event("telegram", "group", None, "u1", t_x, "none", <<>>)}

(***************************************************************************)
(* Specifications.                                                         *)
(***************************************************************************)
\* the handling of inbound messages: at most n of them, drawn from evs
Serve(evs, n) ==
    \/ \E t \in 1..n, p \in Procs, ev \in evs : Receive(t, p, ev, n)
    \/ \E t \in 1..n : GetContext(t)
    \/ \E t \in 1..n : BackendOk(t)
    \/ \E t \in 1..n : BackendFail(t)
    \/ \E t \in 1..n : AddGet(t)
    \/ \E t \in 1..n : AddSet(t)
    \/ \E t \in 1..n, ok \in BOOLEAN : Send(t, ok)
    \/ \E t \in 1..n, ok \in BOOLEAN : SendError(t, ok)
    \/ \E ev \in evs : WebArrive(ev, n)
    \/ WebPoll
    \/ \E t \in 1..n : WebProcess(t)

\* what happens to the store from outside the message handling
Env ==
    \/ Tick
    \/ \E p \in Procs, sid \in DOMAIN log : ClearSession(p, sid)
    \/ RedisDown
    \/ RedisUp

\* two processes on one Redis server that stays up and expires nothing
Next == Serve(CoreEvents, MaxTasks)
Spec == Init /\ [][Next]_vars

\* a single process; keys expire, sessions are cleared, Redis has outages
NextSingle == Serve(CoreEvents, MaxTasks) \/ Env
SpecSingle == InitSingle /\ [][NextSingle]_vars

\* one inbound message of any kind in a single process that is starting up
NextEvent == Serve(AllEvents, 1) \/ Env \/ TelegramGetBotInfo
SpecEvent == InitEvent /\ [][NextEvent]_vars

\* the session ids derived for inbound messages of any origin, by adapters that
\* start up, learn the bot's name and are restarted in between
NextSession ==
    \/ \E in \in SessionInputs : DeriveSessionId(in)
    \/ TelegramGetBotInfo
    \/ AdapterRestart
SpecSession == InitEvent /\ [][NextSession]_vars

\* a single process with the largest configuration whose polling listeners may
\* be stopped; Redis has outages
NextListener ==
    \/ Serve(CoreEvents, MaxTasks)
    \/ RedisDown
    \/ RedisUp
    \/ \E l \in Listeners : StopPolling(l)
InitListener ==
    /\ InitSingle
    /\ max_messages = MaxConfiguredMessages
    /\ session_ttl = MaxConfiguredTtl
SpecListener == InitListener /\ [][NextListener]_vars

\* the messages of one Telegram user to the bot, and the session ids the
\* query surface is asked about: that user's and one that was never written
StoreEvents == {Event("telegram", "direct", None, "u1", t_que, "none", <<>>)}
SessionIds == {telegram_get_session_id("c1", "u1", "private", None),
               telegram_get_session_id("c1", "u2", "private", None)}

\* a single process with the largest configuration: the runs of one session,
\* the Redis clock, Redis outages and the calls of the session query surface
NextStore ==
    \/ \E t \in TaskIds, ev \in StoreEvents : Receive(t, "p1", ev, MaxTasks)
    \/ \E t \in TaskIds : GetContext(t)
    \/ \E t \in TaskIds : BackendOk(t)
    \/ \E t \in TaskIds : BackendFail(t)
    \/ \E t \in TaskIds : AddGet(t)
    \/ \E t \in TaskIds : AddSet(t)
    \/ \E t \in TaskIds : Send(t, TRUE)
    \/ Tick
    \/ RedisDown
    \/ RedisUp
    \/ \E session_id \in SessionIds : DeleteSession("p1", session_id)
    \/ \E session_id \in SessionIds : GetSessionInfo("p1", session_id)
    \/ ListActiveSessions("p1", SessionIds)
SpecStore == InitListener /\ [][NextStore]_vars

\* the Telegram listener of a single process: updates arrive, the polling is
\* started and stopped, the adapter is replaced by a restart
NextPoll ==
    \/ TgArrive
    \/ StartPolling
    \/ \E l \in LoopIds, ok \in BOOLEAN : GetBotInfo(l, ok)
    \/ \E l \in LoopIds, ok \in BOOLEAN : UpdatesReturn(l, ok)
    \/ \E l \in LoopIds : SleepDone(l)
    \/ \E l \in LoopIds, ok \in BOOLEAN : ProcessDone(l, ok)
    \/ \E l \in LoopIds, swallowed \in BOOLEAN : CancelDelivered(l, swallowed)
    \/ StopPollingBegin
    \/ StopPollingEnd
    \/ RestartTelegram
SpecPoll == InitEvent /\ [][NextPoll]_vars

(***************************************************************************)
(* The platform managers (app/core/whatsapp_manager.py,                    *)
(* app/core/discord_manager.py) and their restart endpoints                *)
(***************************************************************************)
\* everything but the WhatsApp and Discord managers
Listening == <<max_messages, session_ttl, procs, calls, running, prompts, api, faults,
               Store, Web, redis_up, tasks, outbox, loop, tg, bot_username, checked>>

Methods == {"auto", "api", "web"}

\* _initialize_api: a new WhatsAppAPIAdapter, True when enabled and initialized
wa_initialize_api(W, apiOk) ==
    [W EXCEPT !.api_adapter = IF apiOk THEN "ok" ELSE "failed",
              !.last.api = IF apiOk THEN "ok" ELSE "failed"]

\* _initialize_web: a new WhatsAppWebAdapter and its start_polling, True when
\* the browser came up (running = True), else the adapter stays stopped
wa_initialize_web(W, webOk) ==
    [W EXCEPT !.web_adapter = IF webOk THEN "running" ELSE "stopped",
              !.last.web = IF webOk THEN "ok" ELSE "failed"]

wa_activate(W, which) == [W EXCEPT !.active_adapter = which, !.preferred_method = which]

\* an initialize whose "auto" starts the Web adapter whatever the API adapter did
wa_initialize_both(W, method, apiOk, webOk) ==
    IF W.initialized THEN W
    ELSE LET W0 == [W EXCEPT !.last = [method |-> method, api |-> "skipped",
                                        web |-> "skipped", restart |-> W.last.restart]]
             A == wa_initialize_api(W0, apiOk)
             B == wa_initialize_web(W0, webOk)
             AB == wa_initialize_web(IF apiOk THEN wa_activate(A, "api") ELSE A, webOk)
             R == CASE method = "auto" -> IF webOk THEN wa_activate(AB, "web") ELSE AB
                    [] method = "api" -> IF apiOk THEN wa_activate(A, "api") ELSE A
                    [] method = "web" -> IF webOk THEN wa_activate(B, "web") ELSE B
         IN  [R EXCEPT !.initialized = TRUE]

\* WhatsAppManager.initialize(method): nothing when already initialized; "auto"
\* takes the API adapter when _initialize_api succeeds, elif the Web adapter
\* when _initialize_web succeeds; "api" and "web" try that adapter alone
wa_initialize(W, method, apiOk, webOk) ==
    IF W.initialized THEN W
    ELSE LET W0 == [W EXCEPT !.last = [method |-> method, api |-> "skipped",
                                        web |-> "skipped", restart |-> W.last.restart]]
             A == wa_initialize_api(W0, apiOk)
             B == wa_initialize_web(W0, webOk)
             AB == wa_initialize_web(A, webOk)
             R == CASE method = "auto" -> IF apiOk THEN wa_activate(A, "api")
                                          ELSE IF webOk THEN wa_activate(AB, "web") ELSE AB
                    [] method = "api" -> IF apiOk THEN wa_activate(A, "api") ELSE A
                    [] method = "web" -> IF webOk THEN wa_activate(B, "web") ELSE B
         IN  [R EXCEPT !.initialized = TRUE]

\* WhatsAppManager.shutdown: stop_polling of a running Web adapter; the API
\* adapter has nothing to close
wa_shutdown(W) ==
    IF W.web_adapter = "running" THEN [W EXCEPT !.web_adapter = "stopped"] ELSE W

\* startup: whatsapp_manager.initialize("auto"), or a later call with a method
WaInitialize(method, apiOk, webOk) ==
    /\ ~wa.initialized
    /\ wa' = wa_initialize(wa, method, apiOk, webOk)
    /\ UNCHANGED <<Listening, dc>>

\* a call of initialize on an initialized manager returns at once
WaInitializeAgain(method, apiOk, webOk) ==
    /\ wa.initialized
    /\ wa' = wa_initialize(wa, method, apiOk, webOk)
    /\ UNCHANGED <<Listening, dc>>

\* WhatsAppManager.restart(method): shutdown, _initialized = False,
\* active_adapter = None, initialize(method or preferred_method)
WaRestart(method, apiOk, webOk) ==
    LET W == [wa_shutdown(wa) EXCEPT !.initialized = FALSE, !.active_adapter = None,
                                     !.last.restart = TRUE]
        restart_method == IF method = None THEN wa.preferred_method ELSE method
    IN  /\ wa' = wa_initialize(W, restart_method, apiOk, webOk)
        /\ UNCHANGED <<Listening, dc>>

\* DiscordManager.initialize on a new manager: a new adapter, the bot task
\* runs DiscordAdapter.start (running = True, then bot.start); after the three
\* seconds the adapter runs, or bot.start has failed (running = False, the
\* task is over) and bot_task is dropped
dc_initialize(ok) ==
    [DcInit EXCEPT !.initialized = TRUE, !.adapter = TRUE, !.running = ok,
                   !.bot_task = IF ok THEN "pending" ELSE "none"]

DcInitialize(ok) ==
    /\ ~dc.initialized
    /\ dc.pc = "idle"
    /\ dc' = dc_initialize(ok)
    /\ UNCHANGED <<Listening, wa>>

\* bot.start raises later on (the connection is lost for good): start sets
\* running = False and returns, _run_bot ends
DcBotFails ==
    /\ dc.bot_task = "pending"
    /\ ~dc.cancel
    /\ dc' = [dc EXCEPT !.bot_task = "done", !.running = FALSE]
    /\ UNCHANGED <<Listening, wa>>

\* DiscordAdapter.stop: nothing when not running, else running = False and
\* bot.close()
dc_stop(D) ==
    IF D.running THEN [D EXCEPT !.running = FALSE, !.stopped = TRUE, !.closed = TRUE] ELSE D

\* shutdown, second half: if discord_adapter and discord_adapter.running: stop()
dc_close(D) ==
    [(IF D.adapter /\ D.running THEN dc_stop(D) ELSE D) EXCEPT !.pc = "idle", !.shut = TRUE]

\* DiscordManager.shutdown, first half: a bot task that is not done is
\* cancelled and awaited; without one, shutdown goes on to the adapter
DcShutdownBegin ==
    /\ dc.pc = "idle"
    /\ dc.initialized
    /\ ~dc.shut
    /\ LET D == [dc EXCEPT !.was_running = dc.running]
       IN  dc' = IF dc.bot_task = "pending"
                 THEN [D EXCEPT !.cancel = TRUE, !.pc = "awaiting"]
                 ELSE dc_close(D)
    /\ UNCHANGED <<Listening, wa>>

\* the cancellation reaches _run_bot inside bot.start: no handler of
\* DiscordAdapter.start takes it, _run_bot logs it and its finally clause sets
\* discord_adapter.running = False
DcCancelDelivered ==
    /\ dc.bot_task = "pending"
    /\ dc.cancel
    /\ dc' = [dc EXCEPT !.bot_task = "done", !.running = FALSE]
    /\ UNCHANGED <<Listening, wa>>

\* shutdown resumes once the bot task is over: bot_task = None, then the adapter
DcShutdownEnd ==
    /\ dc.pc = "awaiting"
    /\ dc.bot_task = "done"
    /\ dc' = dc_close([dc EXCEPT !.bot_task = "none"])
    /\ UNCHANGED <<Listening, wa>>

\* POST /discord/restart: shutdown has returned, then a new DiscordManager
\* and its initialize
RestartDiscord(ok) ==
    /\ dc.pc = "idle"
    /\ dc.shut
    /\ dc' = dc_initialize(ok)
    /\ UNCHANGED <<Listening, wa>>

\* the WhatsApp and the Discord manager of a single process: start-up,
\* restarts, switches of the method, shutdown
NextManagers ==
    \/ \E method \in Methods, apiOk, webOk \in BOOLEAN : WaInitialize(method, apiOk, webOk)
    \/ \E method \in Methods, apiOk, webOk \in BOOLEAN : WaInitializeAgain(method, apiOk, webOk)
    \/ \E method \in Methods \cup {None}, apiOk, webOk \in BOOLEAN : WaRestart(method, apiOk, webOk)
    \/ \E ok \in BOOLEAN : DcInitialize(ok)
    \/ DcBotFails
    \/ DcShutdownBegin
    \/ DcCancelDelivered
    \/ DcShutdownEnd
    \/ \E ok \in BOOLEAN : RestartDiscord(ok)
SpecManagers == InitEvent /\ [][NextManagers]_vars

\* the de-duplication set of WhatsApp Web under a stream of message ids
NextDedup == \E id \in 1..MaxIds : IsNewMessage(id)
SpecDedup == InitEvent /\ [][NextDedup]_vars

\* the requests process_message builds for any stored history and system prompt
NextPrompt ==
    \E system_prompt \in SystemPrompts, session_context \in StoredContexts :
        BuildMessages(system_prompt, session_context, s_pregunta)
SpecPrompt == InitListener /\ [][NextPrompt]_vars

\* the next step of run t: the call it awaits (Redis, the backend, the
\* platform's send API) returns
Step(t) ==
    \/ GetContext(t)
    \/ BackendOk(t)
    \/ BackendFail(t)
    \/ AddGet(t)
    \/ AddSet(t)
    \/ \E ok \in BOOLEAN : Send(t, ok)
    \/ \E ok \in BOOLEAN : SendError(t, ok)

\* a single process with the largest configuration in which every call a run
\* awaits returns: the Redis client has socket timeouts, the HTTP clients have
\* timeouts, and the event loop resumes a coroutine whose await has completed
NextLive == Serve(LiveEvents, MaxTasks) \/ RedisDown \/ RedisUp
Fairness == \A t \in TaskIds : WF_vars(Step(t))
SpecLive == InitListener /\ [][NextLive]_vars /\ Fairness

(***************************************************************************)
(* Properties.                                                             *)
(***************************************************************************)
Range(seq) == {seq[i] : i \in 1..Len(seq)}

\* the runs that went to the agent
AgentRuns == {t \in TaskIds : tasks[t].pc # "idle" /\ tasks[t].dec.act = "agent"}

\* the positions of the turns of run t in a list of turns
TurnsOf(t, turns) == {i \in 1..Len(turns) : turns[i].run = t}

\* the positions of an entry in a run's trace
At(t, what) == {i \in 1..Len(tasks[t].trace) : tasks[t].trace[i] \in what}

\* C1: no append is lost: as long as no storage fault and no expiry has hit an
\* append of the session, every turn written to it that trimming has not yet
\* evicted (the last max_messages written) is in the stored history -- also
\* when the appends come from different processes
C1_NoAppendLost ==
    \A sid \in DOMAIN log :
        QuietOf(sid) => Range(LastN(log[sid], max_messages)) \subseteq Range(Stored(sid))

\* C2: a run whose backend call failed has changed nothing in the store
C2_FailureWritesNothing ==
    \A t \in AgentRuns :
        tasks[t].resp = AgentApology =>
            /\ tasks[t].writes = 0
            /\ At(t, {"get", "add_user", "add_assistant", "add_user_failed",
                      "add_assistant_failed"}) = {}

\* a run failed at the backend and ended while its session held turns of another run
C2_Witness ==
    \E t \in AgentRuns :
        /\ tasks[t].resp = AgentApology
        /\ tasks[t].pc = "done"
        /\ Stored(tasks[t].dec.sid) # <<>>

\* C3: with a maximum of N, after k appends to a session with no expiry, clear
\* or storage fault in between, the stored history is exactly the last
\* min(k, N) turns appended, in the order of their appends
C3_LastN ==
    \A sid \in DOMAIN log :
        QuietOf(sid) =>
            /\ Stored(sid) = LastN(log[sid], max_messages)
            /\ Len(Stored(sid)) <= max_messages

\* more turns were appended than the maximum, and the oldest ones are gone
C3_Witness ==
    \E sid \in DOMAIN log :
        /\ QuietOf(sid)
        /\ max_messages >= 2
        /\ Len(log[sid]) > max_messages
        /\ Len(Stored(sid)) = max_messages

\* C4: a turn that was appended is read back, after the turns appended before it
\* and before those appended after it, until trimming, expiry or a clear evicts
\* it: the stored history ends with the last max_messages turns appended since
\* the key was last absent
C4_RoundTrip ==
    \A sid \in DOMAIN log :
        LET want == LastN(log[sid], max_messages)
            have == Stored(sid)
        IN Len(have) >= Len(want) /\ LastN(have, Len(want)) = want

\* the text of a group message names the bot or matches a trigger pattern of
\* its platform
NamesBot(ev) ==
    CASE ev.plat = "telegram" ->
            ev.text # <<>> /\ Contains(lower(ev.text), lower(<<"@">> \o BotUsername))
      [] ev.plat = "discord" -> discord_is_bot_mentioned(ev.text)
      [] ev.plat = "whatsapp_api" -> whatsapp_api_is_bot_mentioned(ev.text)
      [] ev.plat = "whatsapp_web" -> whatsapp_web_is_bot_mentioned(ev.text, "group")

\* C5: a group message that is no reply to a message of the bot, does not name
\* the bot and matches no trigger is dropped: no backend call, no send, no
\* change of the store
C5_GroupSilence ==
    \A t \in TaskIds :
        (/\ tasks[t].pc # "idle"
         /\ tasks[t].ev.kind = "group"
         /\ tasks[t].ev.reply # "bot"
         /\ ~NamesBot(tasks[t].ev))
        => /\ tasks[t].dec.act = "drop"
           /\ tasks[t].trace = <<>>
           /\ outbox[t] = <<>>

\* C6: a text message in a direct chat is never dropped: its run ends with a
\* call of the outbound sender
C6_DirectAnswered ==
    \A t \in TaskIds :
        (/\ Finished(t)
         /\ tasks[t].ev.kind = "direct"
         /\ tasks[t].ev.text # <<>>)
        => /\ tasks[t].dec.act # "drop"
           /\ outbox[t] # <<>>

Adds == {"add_user", "add_assistant", "add_user_failed", "add_assistant_failed"}

\* C7: on success the user's turn is appended first and the assistant's turn
\* second, both after the backend has returned and before the reply is handed
\* to the sender
C7_AppendOrder ==
    \A t \in AgentRuns :
        /\ \A i \in At(t, Adds) :
              /\ \E j \in At(t, {"backend_ok"}) : j < i
              /\ \A j \in At(t, {"send", "send_error"}) : i < j
        /\ \A i \in At(t, {"add_user", "add_user_failed"}) :
              \A j \in At(t, {"add_assistant", "add_assistant_failed"}) : i < j
        /\ (tasks[t].resp = BackendAnswer /\ tasks[t].pc \in {"send", "send_error", "done"})
              => /\ Cardinality(At(t, {"add_user", "add_user_failed"})) = 1
                 /\ Cardinality(At(t, {"add_assistant", "add_assistant_failed"})) = 1
        /\ LET turns == Stored(tasks[t].dec.sid)
           IN \A i, j \in TurnsOf(t, turns) :
                 (turns[i].role = "user" /\ turns[j].role = "assistant") => i < j

\* a run has stored both of its turns and handed its reply to the sender
C7_Witness ==
    \E t \in AgentRuns :
        /\ tasks[t].pc = "done"
        /\ tasks[t].resp = BackendAnswer
        /\ Cardinality(TurnsOf(t, Stored(tasks[t].dec.sid))) = 2

Apologies == {AgentApology, AdapterApology}

C9_HandledOnce ==
    \A t1, t2 \in TaskIds :
        (t1 # t2 /\ tasks[t1].src # 0) => tasks[t1].src # tasks[t2].src

\* the runs of two inbound messages on one session, t1's received first
SameSession(t1, t2) ==
    /\ t1 \in AgentRuns
    /\ t2 \in AgentRuns
    /\ t1 # t2
    /\ tasks[t1].dec.sid = tasks[t2].dec.sid

\* in the stored history of their session every turn of t1 is before every turn of t2
TurnsBefore(t1, t2) ==
    LET turns == Stored(tasks[t1].dec.sid)
    IN \A i \in TurnsOf(t1, turns), j \in TurnsOf(t2, turns) : i < j

\* C10 as stated: the stored history of a session follows the order in which
\* its inbound messages were received, also when they are processed concurrently
C10_ReceiveOrder ==
    \A t1, t2 \in TaskIds : (SameSession(t1, t2) /\ t1 < t2) => TurnsBefore(t1, t2)

\* C10, amended: the stored history of a session follows the order of the
\* append phases: the turns of a run whose appends were over when another
\* run's backend call returned are before that run's turns
C10_AppendPhaseOrder ==
    \A t1, t2 \in TaskIds :
        (SameSession(t1, t2) /\ t1 \in tasks[t2].after) => TurnsBefore(t1, t2)

\* the message received second was appended first, and both are in the history
C10_Witness ==
    \E t1, t2 \in TaskIds :
        /\ SameSession(t1, t2)
        /\ t1 < t2
        /\ t2 \in tasks[t1].after
        /\ TurnsOf(t1, Stored(tasks[t1].dec.sid)) # {}
        /\ TurnsOf(t2, Stored(tasks[t1].dec.sid)) # {}

\* the session of the run that stored a turn
SessionOfTurn(turn) == tasks[turn.run].dec.sid

\* the keys whose value or time to live a step changes
ChangedKeys ==
    {k \in DOMAIN redis \cup DOMAIN redis' :
        ~(k \in DOMAIN redis /\ k \in DOMAIN redis' /\ redis[k] = redis'[k])}

\* C11: sessions are isolated: the context read for a message and the history
\* stored under a session id hold only turns of runs on that session id, and a
\* step of a run, or a clear, changes the turns and the expiry of no key but
\* the one of its own session id (only the passing of time touches every key)
C11_Isolation ==
    /\ [](\A t \in AgentRuns : \A turn \in Range(tasks[t].ctx) \cup Range(tasks[t].buf) :
             SessionOfTurn(turn) = tasks[t].dec.sid)
    /\ [](\A t \in AgentRuns : \A turn \in Range(Stored(tasks[t].dec.sid)) :
             SessionOfTurn(turn) = tasks[t].dec.sid)
    /\ [][\/ Tick
          \/ /\ Cardinality(ChangedKeys) <= 1
             /\ \A t \in TaskIds :
                   (tasks'[t].pc # tasks[t].pc /\ tasks'[t].dec.act = "agent")
                   => ChangedKeys \subseteq {get_session_key(tasks'[t].dec.sid)}]_vars

\* two sessions are stored side by side, each with the two turns of its run
C11_Witness ==
    \E t1, t2 \in AgentRuns :
        /\ tasks[t1].dec.sid # tasks[t2].dec.sid
        /\ Cardinality(TurnsOf(t1, Stored(tasks[t1].dec.sid))) = 2
        /\ Cardinality(TurnsOf(t2, Stored(tasks[t2].dec.sid))) = 2

Calls == DOMAIN calls

GroupCalls == {i \in Calls : calls[i].in.kind = "group"}
DirectCalls == {i \in Calls : calls[i].in.kind = "direct"}

\* C13: two group messages on one platform get the same session id if and
\* only if they come from the same chat and the same thread (or both from no
\* thread), whoever sent them
C13_GroupSessions ==
    \A i, j \in GroupCalls :
        calls[i].in.plat = calls[j].in.plat
        => (calls[i].sid = calls[j].sid
            <=> (calls[i].in.chat = calls[j].in.chat /\ calls[i].in.thread = calls[j].in.thread))

\* the same, for the platforms that know a chat by an id
C13_GroupSessionsById ==
    \A i, j \in GroupCalls :
        (calls[i].in.plat = calls[j].in.plat /\ calls[i].in.plat # "whatsapp_web")
        => (calls[i].sid = calls[j].sid
            <=> (calls[i].in.chat = calls[j].in.chat /\ calls[i].in.thread = calls[j].in.thread))

\* C14: direct chats are isolated per user: direct messages of two different
\* users never get the same session id, and a direct message never gets the
\* session id of a group message
C14_DirectSessions ==
    /\ \A i, j \in DirectCalls :
          (calls[i].in.plat = calls[j].in.plat /\ calls[i].in.user # calls[j].in.user)
          => calls[i].sid # calls[j].sid
    /\ \A i \in DirectCalls : \A j \in GroupCalls : calls[i].sid # calls[j].sid

\* the same, for the platforms that know a chat by an id
C14_DirectSessionsById ==
    /\ \A i, j \in DirectCalls :
          (calls[i].in.plat = calls[j].in.plat /\ calls[i].in.user # calls[j].in.user
           /\ calls[i].in.plat # "whatsapp_web")
          => calls[i].sid # calls[j].sid
    /\ \A i \in DirectCalls : \A j \in GroupCalls : calls[i].sid # calls[j].sid

\* the session id format the claim names
NamedFormat(in) ==
    IF in.kind = "direct" THEN in.plat \o ":direct:" \o in.chat \o ":" \o in.user
    ELSE IF in.thread # None THEN in.plat \o ":group:" \o in.chat \o ":thread:" \o in.thread
    ELSE in.plat \o ":group:" \o in.chat

\* C15: the derived session id is "{platform}:direct:{chat_id}:{user_id}" for
\* a direct chat, "{platform}:group:{chat_id}:thread:{thread_id}" for a group
\* message with a thread id and "{platform}:group:{chat_id}" for one without
C15_Format == \A i \in Calls : calls[i].sid = NamedFormat(calls[i].in)

\* C16: when Redis is unavailable while an activated message is processed and
\* the backend call succeeds, the user still gets the backend's answer and no
\* apology: the read gives an empty context, the failed writes are swallowed
\* and the run goes on to the sender as it does when Redis answers
C16_StoreOutage ==
    /\ [](\A t \in AgentRuns :
            (\E i \in 1..Len(tasks[t].trace) : tasks[t].trace[i] = "backend_ok") =>
                /\ tasks[t].resp = BackendAnswer
                /\ tasks[t].pc = "done" => outbox[t] # <<>>
                /\ outbox[t] # <<>> => outbox[t][1].text = BackendAnswer
                /\ \A i \in 1..Len(outbox[t]) :
                      outbox[t][i].text \in Apologies => (i > 1 /\ ~outbox[t][i - 1].ok))
    /\ [][\A t \in TaskIds :
            (~redis_up /\ tasks'[t].pc # tasks[t].pc) =>
                /\ tasks[t].pc = "ctx" => (tasks'[t].pc = "backend" /\ tasks'[t].ctx = <<>>)
                /\ tasks[t].pc = "add_user_get" =>
                      (tasks'[t].pc = "add_user_set" /\ tasks'[t].buf = <<>>)
                /\ tasks[t].pc = "add_user_set" => tasks'[t].pc = "add_assistant_get"
                /\ tasks[t].pc = "add_assistant_get" =>
                      (tasks'[t].pc = "add_assistant_set" /\ tasks'[t].buf = <<>>)
                /\ tasks[t].pc = "add_assistant_set" =>
                      (tasks'[t].pc = "send" /\ tasks'[t].resp = BackendAnswer)]_vars

\* a run that found Redis down at its read and at both appends delivered the answer
C16_Witness ==
    \E t \in AgentRuns :
        /\ tasks[t].pc = "done"
        /\ tasks[t].trace = <<"get_context", "backend_ok", "get", "add_user_failed",
                               "get", "add_assistant_failed", "send">>
        /\ tasks[t].writes = 0
        /\ tasks[t].ctx = <<>>
        /\ Stored(tasks[t].dec.sid) # <<>>
        /\ outbox[t][1].text = BackendAnswer
        /\ outbox[t][1].ok

\* a run had a failure: its backend call, one of its appends or a send failed
Failed(t) ==
    \/ At(t, {"backend_failed", "add_user_failed", "add_assistant_failed"}) # {}
    \/ \E i \in 1..Len(outbox[t]) : ~outbox[t][i].ok

\* C17: no failure in the processing of an inbound message ends a polling
\* listener: a listener that is running stops running only in a step of
\* stop_polling, so after any failure the Telegram and WhatsApp Web polling
\* loops are still running and take the next message
C17_ListenerSurvives ==
    [][\A l \in Listeners : (running[l] /\ ~running'[l]) => StopPolling(l)]_vars

\* after a WhatsApp Web message whose backend call failed and whose apology
\* could not be sent, the polling loop has processed the next message
C17_Witness ==
    /\ running["whatsapp_web"]
    /\ tasks[1].ev.plat = "whatsapp_web" /\ tasks[2].ev.plat = "whatsapp_web"
    /\ tasks[1].src # tasks[2].src
    /\ tasks[1].pc = "done" /\ tasks[2].pc = "done"
    /\ tasks[1].resp = AgentApology
    /\ Failed(1)
    /\ ~outbox[1][Len(outbox[1])].ok
    /\ tasks[2].resp = BackendAnswer
    /\ outbox[2][1].ok

\* C19: a listener that is stopped while a message of its is being processed
\* lets that run finish: the stop leaves the run as it is, to go on to its
\* reply (or apology), and does not abandon it part-way
C19_InFlightFinishes ==
    [][\A l \in Listeners :
          (running[l] /\ ~running'[l]) => \A t \in InFlight(l) : tasks'[t] = tasks[t]]_vars

ApologyTexts == Apologies \cup {DiscordProcessApology}

\* the terminal states of a run
Sent(t) ==
    /\ tasks[t].pc = "done"
    /\ outbox[t] # <<>>
    /\ outbox[t][Len(outbox[t])].text \notin ApologyTexts
FailedSent(t) ==
    /\ tasks[t].pc = "done"
    /\ outbox[t] # <<>>
    /\ outbox[t][Len(outbox[t])].text \in ApologyTexts
DroppedRun(t) == tasks[t].pc = "dropped" /\ outbox[t] = <<>>
Terminal(t) == Sent(t) \/ FailedSent(t) \/ DroppedRun(t)

Middle(p) == SubSeq(p.messages, 2, Len(p.messages) - 1)

\* the positions of the stored context that hold its 10 most recent turns
RecentPositions(p) ==
    {i \in 1..Len(p.session_context) : i > Len(p.session_context) - PromptWindow}

\* the stored turn a turn of the request was copied from
CopiedFrom(p, turn) ==
    {i \in RecentPositions(p) : /\ p.session_context[i].role = turn.role
                                /\ p.session_context[i].content = turn.content}

\* a request that starts with one system turn of the given content, goes on
\* with at most 10 turns, each one of the 10 most recent stored turns and in
\* their stored order, and ends with the new user turn
Shaped(p, system_content) ==
    /\ Len(p.messages) >= 2
    /\ p.messages[1] = [role |-> "system", content |-> system_content]
    /\ Cardinality({i \in 1..Len(p.messages) : p.messages[i].role = "system"}) = 1
    /\ p.messages[Len(p.messages)] = [role |-> "user", content |-> p.message]
    /\ Len(Middle(p)) <= PromptWindow
    /\ \A j \in 1..Len(Middle(p)) : CopiedFrom(p, Middle(p)[j]) # {}
    /\ \A j1, j2 \in 1..Len(Middle(p)) :
          j1 < j2 => \A i1 \in CopiedFrom(p, Middle(p)[j1]) :
                        \A i2 \in CopiedFrom(p, Middle(p)[j2]) : i1 < i2

\* C20: the request to the backend is one system turn -- the caller's system
\* prompt if one is given, else the default one --, then at most the 10 most
\* recent stored turns in their stored order, then the new user turn
C20_Prompt ==
    \A n \in 1..Len(prompts) :
        Shaped(prompts[n], IF prompts[n].system_prompt # None
                           THEN prompts[n].system_prompt ELSE DefaultSystemPrompt)

\* C20, amended: the system turn is the caller's system prompt if one is given
\* and it is not empty, else the default one
C20_PromptNonEmpty ==
    \A n \in 1..Len(prompts) :
        Shaped(prompts[n], IF prompts[n].system_prompt \notin {None, ""}
                           THEN prompts[n].system_prompt ELSE DefaultSystemPrompt)

\* a request for a history of more than 10 turns, with the caller's system prompt
C20_Witness ==
    \E n \in 1..Len(prompts) :
        /\ Len(prompts[n].session_context) > PromptWindow
        /\ \A i \in 1..Len(prompts[n].session_context) :
              prompts[n].session_context[i].role # "system"
        /\ Len(prompts[n].messages) = PromptWindow + 2
        /\ prompts[n].system_prompt \notin {None, ""}

\* this step is a successful append to the session: the setex of an add_message
Appends(session_id) ==
    \E t \in TaskIds :
        /\ tasks[t].pc \in {"add_user_set", "add_assistant_set"}
        /\ tasks'[t].pc # tasks[t].pc
        /\ tasks[t].dec.sid = session_id
        /\ redis_up

\* C21: every successful append sets the session's time to live to the full
\* TTL; no other step (get_context, get_session_info, list_active_sessions
\* among them) creates the key or raises its time to live; the Redis clock
\* brings it down and removes the key at zero, so a session without an append
\* for a TTL is gone; get_context of a session that is gone gives the empty
\* list and the run goes on; the append that follows stores the new turn only
C21_Expiry ==
    /\ [](\A k \in DOMAIN redis : redis[k].ttl \in 1..session_ttl)
    /\ [][\A session_id \in SessionIds :
            LET k == get_session_key(session_id)
            IN /\ Appends(session_id) => (k \in DOMAIN redis' /\ redis'[k].ttl = session_ttl)
               /\ (k \in DOMAIN redis' /\ (k \notin DOMAIN redis \/ redis'[k].ttl > redis[k].ttl))
                     => Appends(session_id)
               /\ (Tick /\ k \in DOMAIN redis)
                     => IF redis[k].ttl = 1 THEN k \notin DOMAIN redis'
                        ELSE (k \in DOMAIN redis' /\ redis'[k].ttl = redis[k].ttl - 1)
               /\ \A t \in TaskIds :
                     (tasks[t].dec.act = "agent" /\ tasks[t].dec.sid = session_id
                      /\ tasks'[t].pc # tasks[t].pc
                      /\ k \notin DOMAIN redis)
                     => /\ tasks[t].pc = "ctx"
                           => (tasks'[t].pc = "backend" /\ tasks'[t].ctx = <<>>)
                        /\ tasks[t].pc \in {"add_user_get", "add_assistant_get"}
                           => tasks'[t].buf = <<>>
               /\ \A t \in TaskIds :
                     (tasks[t].dec.act = "agent" /\ tasks[t].dec.sid = session_id
                      /\ tasks'[t].pc # tasks[t].pc
                      /\ tasks[t].pc \in {"add_user_set", "add_assistant_set"}
                      /\ tasks[t].buf = <<>> /\ redis_up)
                     => (Len(Stored(session_id)') = 1 /\ Stored(session_id)'[1].run = t)]_vars

\* the session of a finished exchange expired, the next run read an empty
\* context and its first append stored one turn; nobody cleared the session
C21_Witness ==
    /\ api = NoCall
    /\ tasks[1].pc = "done" /\ tasks[1].writes = 2
    /\ tasks[2].pc = "add_assistant_get"
    /\ tasks[2].ctx = <<>>
    /\ tasks[2].dec.sid = tasks[1].dec.sid
    /\ Len(Stored(tasks[2].dec.sid)) = 1
    /\ Stored(tasks[2].dec.sid)[1].run = 2
    /\ redis[get_session_key(tasks[2].dec.sid)].ttl = session_ttl

\* C22: clear_session returns true exactly when a session was stored for the
\* id at the time of the call; when it has returned, the session is not stored
\* (get_context gives the empty list, list_active_sessions does not list it)
C22_Clear ==
    /\ [](api.call = "clear_session" => api.result = api.existed)
    /\ [][(api' # api /\ api'.call = "clear_session")
            => get_session_key(api'.session_id) \notin DOMAIN redis']_vars

\* the same, for the calls that Redis answers
C22_ClearAnswered ==
    /\ [][(api' # api /\ api'.call = "clear_session" /\ redis_up)
            => /\ api'.result = api'.existed
               /\ get_session_key(api'.session_id) \notin DOMAIN redis']_vars

BackendCalls == {"backend_ok", "backend_failed"}

\* the runs that handle the inbound message of run t: the run itself and, on
\* WhatsApp Web, every run that was handed the same bubble
RunsOfEvent(t) ==
    {u \in AgentRuns : u = t \/ (tasks[t].src # 0 /\ tasks[u].src = tasks[t].src)}

\* C23: the completion backend is called at most once per inbound event, and
\* after a failed call there is no second call for that event
C23_OncePerEvent ==
    \A t \in AgentRuns :
        /\ Cardinality(At(t, BackendCalls)) <= 1
        /\ Cardinality({u \in RunsOfEvent(t) : At(u, BackendCalls) # {}}) <= 1

\* within one run: at most one backend call, and after a failed call the next
\* thing the run does is to hand the apology to the sender: no second call, no
\* append
C23_NoRetry ==
    /\ \A t \in AgentRuns : Cardinality(At(t, BackendCalls)) <= 1
    /\ \A t \in AgentRuns : \A i \in At(t, {"backend_failed"}) :
          /\ tasks[t].resp = AgentApology
          /\ tasks[t].pc \in {"send", "send_error", "done"}
          /\ \A j \in (i + 1)..Len(tasks[t].trace) :
                tasks[t].trace[j] \in {"send", "send_error"}
          /\ outbox[t] # <<>> => outbox[t][1].text = AgentApology

\* a WhatsApp API message whose backend call failed got the apology
C23_Witness ==
    \E t \in AgentRuns :
        /\ tasks[t].ev.plat = "whatsapp_api"
        /\ At(t, {"backend_failed"}) # {}
        /\ tasks[t].pc = "done"
        /\ Len(outbox[t]) = 1
        /\ outbox[t][1].text = AgentApology

\* the runs of a direct message whose text is the greeting "hola" in any case
GreetingRuns ==
    {t \in TaskIds : /\ tasks[t].pc # "idle"
                     /\ tasks[t].ev.kind = "direct"
                     /\ lower(tasks[t].ev.text) = s_hola}

\* run t has done nothing but hand the canned text to its sender
ShortCircuit(t, which) ==
    /\ tasks[t].dec.act = "canned"
    /\ tasks[t].dec.canned = which
    /\ tasks[t].writes = 0
    /\ \A i \in 1..Len(tasks[t].trace) : tasks[t].trace[i] \in {"send", "send_error"}
    /\ outbox[t] # <<>> => outbox[t][1].text = which

\* C24: on every platform a direct message "hola" is answered with the canned
\* welcome: the backend is not called and the store is neither read nor written
C24_Greeting == \A t \in GreetingRuns : ShortCircuit(t, "welcome")

\* the same on the platforms other than Telegram
C24_GreetingOffTelegram ==
    \A t \in GreetingRuns : tasks[t].ev.plat # "telegram" => ShortCircuit(t, "welcome")

\* the runs of a direct message whose text is whitespace only
BlankRuns ==
    {t \in TaskIds : /\ tasks[t].pc # "idle"
                     /\ tasks[t].ev.kind = "direct"
                     /\ tasks[t].ev.text # <<>>
                     /\ strip(tasks[t].ev.text) = <<>>}

\* C25: a direct message whose text is whitespace only is answered with the
\* canned clarifying prompt -- it is not dropped --, the backend is not called
\* and the store is neither read nor written
C25_BlankPrompted == \A t \in BlankRuns : ShortCircuit(t, "prompt")

\* the same for the WhatsApp API adapter alone
C25_BlankWhatsAppApi ==
    \A t \in BlankRuns : tasks[t].ev.plat = "whatsapp_api" => ShortCircuit(t, "prompt")

\* the receiving adapter's activation test for a group message with text
Activated(ev) ==
    CASE ev.plat = "telegram" -> telegram_is_bot_mentioned(ev.text, ev.reply, bot_username)
      [] ev.plat = "discord" ->
            discord_is_bot_mentioned(ev.text) \/ discord_is_reply_to_bot(ev.reply, ev.quoted)[1]
      [] ev.plat = "whatsapp_api" ->
            whatsapp_api_is_bot_mentioned(ev.text) \/ whatsapp_api_is_reply_to_bot(ev.reply)
      [] ev.plat = "whatsapp_web" ->
            \/ whatsapp_web_is_bot_mentioned(whatsapp_web_extract_text(ev), "group")
            \/ whatsapp_web_is_reply_to_bot(ev.reply, ev.quoted)[1]

\* the receiving adapter's clean_text
CleanText(ev) ==
    CASE ev.plat = "telegram" -> strip(telegram_clean_mention_from_text(ev.text, bot_username))
      [] ev.plat = "discord" -> strip(discord_clean_mention_from_text(strip(ev.text)))
      [] ev.plat = "whatsapp_api" -> strip(whatsapp_clean_mention_from_text(ev.text))
      [] ev.plat = "whatsapp_web" ->
            strip(whatsapp_clean_mention_from_text(whatsapp_web_extract_text(ev)))

\* run t starts in this step, on a group message with text
StartsGroupRun(t) ==
    /\ tasks[t].pc = "idle"
    /\ tasks'[t].pc # "idle"
    /\ tasks'[t].ev.kind = "group"
    /\ strip(tasks'[t].ev.text) # <<>>

\* the calls of the sender by run t that carry the canned text
CannedCalls(t) ==
    {i \in 1..Len(outbox[t]) : outbox[t][i].text = tasks[t].dec.canned}

NoTextRuns == {t \in TaskIds : tasks[t].pc # "idle" /\ tasks[t].ev.text = <<>>}

\* run t ended as "no message": nothing read, written, asked or sent
NoMessage(t) ==
    /\ tasks[t].dec = Dropped
    /\ tasks[t].pc = "dropped"
    /\ tasks[t].trace = <<>>
    /\ tasks[t].writes = 0
    /\ outbox[t] = <<>>

\* C27: an inbound event without text is "no message": no backend call, no
\* access to the store, no outbound message, no error
C27_NoTextIsNoMessage == \A t \in NoTextRuns : NoMessage(t)

\* the same for all events but those of a Telegram private chat
C27_NoTextOffTelegramPrivate ==
    \A t \in NoTextRuns :
        ~(tasks[t].ev.plat = "telegram" /\ tasks[t].ev.kind = "direct") => NoMessage(t)

\* run t starts in this step on a group text message that is a reply to a
\* message the bot sent
StartsReplyToBot(t) == StartsGroupRun(t) /\ tasks'[t].ev.reply = "bot"

\* C28: in a group a text message that replies to a message of the bot is
\* activated (answered by the agent or with a canned text), whatever its text
\* and whenever the adapter receives it
C28_ReplyActivates ==
    [][\A t \in TaskIds : StartsReplyToBot(t) => tasks'[t].dec # Dropped]_vars

\* the same for Discord, the WhatsApp API and a Telegram adapter that has
\* learnt the bot's name and id from getMe
C28_ReplyActivatesKnownBot ==
    [][\A t \in TaskIds :
         (/\ StartsReplyToBot(t)
          /\ tasks'[t].ev.plat # "whatsapp_web"
          /\ tasks'[t].ev.plat = "telegram" => bot_username # None)
            => tasks'[t].dec # Dropped]_vars

\* the receiving adapter's test for a mention or trigger pattern in a text
MentionIn(plat, text) ==
    CASE plat = "telegram" -> telegram_is_bot_mentioned(text, "none", bot_username)
      [] plat = "discord" -> discord_is_bot_mentioned(text)
      [] plat = "whatsapp_api" -> whatsapp_api_is_bot_mentioned(text)
      [] plat = "whatsapp_web" -> whatsapp_web_is_bot_mentioned(text, "group")

\* run t starts in this step on a group message that a mention or a trigger
\* pattern activates (it is not a reply)
StartsMentioned(t) ==
    /\ StartsGroupRun(t)
    /\ tasks'[t].ev.reply = "none"
    /\ MentionIn(tasks'[t].ev.plat, tasks'[t].ev.text)

\* C29: for a group message activated by a mention or a trigger pattern,
\* clean_text is trimmed and holds no activating marker any more, and it is
\* what the agent is asked; "@bot que" gives "que"
C29_MarkerRemoved ==
    [][\A t \in TaskIds : StartsMentioned(t) =>
          LET ev == tasks'[t].ev
              clean_text == CleanText(ev)
          IN /\ ~MentionIn(ev.plat, clean_text)
             /\ strip(clean_text) = clean_text
             /\ tasks'[t].dec.act = "agent" => tasks'[t].dec.text = clean_text
             /\ ev.text = t_at_bot_que => clean_text = t_que]_vars

\* the same for the markers other than Discord's "@<name of the bot>" and
\* WhatsApp Web's "bot ... ?"
C29_MarkerRemovedListed ==
    [][\A t \in TaskIds :
         (/\ StartsMentioned(t)
          /\ ~(/\ tasks'[t].ev.plat = "discord"
                /\ SearchWordEnd(strip(lower(tasks'[t].ev.text)),
                                 <<"@">> \o lower(BotDiscordName)))
          /\ ~(/\ tasks'[t].ev.plat = "whatsapp_web"
                /\ SearchBotQuestion(strip(lower(tasks'[t].ev.text))))) =>
          LET ev == tasks'[t].ev
              clean_text == CleanText(ev)
          IN /\ ~MentionIn(ev.plat, clean_text)
             /\ strip(clean_text) = clean_text
             /\ tasks'[t].dec.act = "agent" => tasks'[t].dec.text = clean_text
             /\ ev.text = t_at_bot_que => clean_text = t_que]_vars

\* the runs that hand their message to an adapter's _send_message
SenderRuns == {t \in TaskIds : tasks[t].pc # "idle" /\ tasks[t].ev.plat # "discord"}

\* the delivery attempts _send_message can make on a platform
MaxAttempts(plat) == IF plat = "telegram" THEN Len(TelegramSendModes) ELSE 1

\* _send_message does not raise, stops at the first attempt that succeeds and
\* makes no more than n attempts, all for the same message
SendsWithin(t, n) ==
    /\ tasks[t].pc \notin {"send_error", "raised"}
    /\ Len(outbox[t]) <= n
    /\ \A i \in 1..Len(outbox[t]) :
          /\ outbox[t][i].text = outbox[t][1].text
          /\ outbox[t][i].to = outbox[t][1].to
          /\ outbox[t][i].thread = outbox[t][1].thread
          /\ i < Len(outbox[t]) => ~outbox[t][i].ok

\* C30: a send does not raise to its caller, makes at most two delivery
\* attempts (one alternative format), stops at the first that succeeds and
\* returns once the attempts are exhausted
C30_TwoAttempts == \A t \in SenderRuns : SendsWithin(t, 2)

\* C30, amended: Telegram's sender makes at most three attempts (plain text,
\* then HTML, then MarkdownV2), the WhatsApp senders make one; a sender does
\* not raise, stops at the first attempt that succeeds, and has returned when
\* an attempt succeeded or all of them failed
C30_AttemptsPerFormat ==
    \A t \in SenderRuns :
        /\ SendsWithin(t, MaxAttempts(tasks[t].ev.plat))
        /\ \A i \in 1..Len(outbox[t]) :
              outbox[t][i].mode = IF tasks[t].ev.plat = "telegram"
                                  THEN TelegramSendModes[i] ELSE "plain"
        /\ (tasks[t].pc = "done") =
              (/\ outbox[t] # <<>>
               /\ \/ outbox[t][Len(outbox[t])].ok
                  \/ Len(outbox[t]) = MaxAttempts(tasks[t].ev.plat))

\* a Telegram send returned after three failed attempts
C30_Witness ==
    \E t \in SenderRuns :
        /\ tasks[t].ev.plat = "telegram"
        /\ tasks[t].pc = "done"
        /\ Len(outbox[t]) = 3
        /\ \A i \in 1..3 : ~outbox[t][i].ok

\* the update handed to _process_message in this step, in a set
HandedOver ==
    IF Len(tg'.handled) = Len(tg.handled) + 1 THEN {tg'.handled[Len(tg'.handled)]} ELSE {}

\* C31: the Telegram polling listener hands each update to the message
\* processing at most once, also after a failed processing and across
\* stop_polling and a restart; an update whose reply was sent is not handed
\* over again
C31_UpdateOnce ==
    /\ [](\A i, j \in 1..Len(tg.handled) : tg.handled[i] = tg.handled[j] => i = j)
    /\ [][\A u \in HandedOver : u \notin tg.replied]_vars

\* list a is the end of list b
Suffix(a, b) == Len(a) <= Len(b) /\ LastN(b, Len(a)) = a

\* run t completes the write of an add_message in this step and Redis takes it
WritesTurn(t) ==
    /\ tasks[t].pc \in {"add_user_set", "add_assistant_set"}
    /\ tasks'[t].pc # tasks[t].pc
    /\ redis_up

\* the turn that run t is writing
TurnWritten(t) == IF tasks[t].pc = "add_user_set" THEN user_turn(t) ELSE assistant_turn(t)

\* h, cut to the maximum with the new turn at its end, is the end of what is
\* stored after the write
KeepsHistory(t) ==
    LET h == Stored(tasks[t].dec.sid)
    IN Suffix(trim_context(h, TurnWritten(t)), Stored(tasks[t].dec.sid)')

\* C32: an add_message whose write succeeds discards nothing but the oldest
\* turns beyond the maximum: the session then ends with the last turns of the
\* history h it held, followed by the new turn -- also when the read inside
\* add_message met a storage error
C32_AppendKeepsHistory ==
    [][\A t \in TaskIds : WritesTurn(t) => KeepsHistory(t)]_vars

\* the same for the calls whose read Redis answered
C32_AppendKeepsHistoryRead ==
    [][\A t \in TaskIds : (WritesTurn(t) /\ ~tasks[t].fault) => KeepsHistory(t)]_vars

\* run t leaves its second add_message in this step: process_message returns
\* the backend's answer
CompletesExchange(t) ==
    /\ tasks[t].pc = "add_assistant_set"
    /\ tasks'[t].pc # tasks[t].pc

\* the stored history holds both turns of run t, side by side, or none
BothOrNeither(t, history) ==
    LET mine == {i \in 1..Len(history) : history[i].run = t}
    IN \/ mine = {}
       \/ \E i \in 1..(Len(history) - 1) :
             /\ mine = {i, i + 1}
             /\ history[i].role = "user"
             /\ history[i + 1].role = "assistant"

\* C33: when the processing of an answered message has completed, the session
\* holds the user's turn and the assistant's turn of the exchange side by side,
\* or neither of them -- also when one of the two writes failed
C33_BothOrNeither ==
    [][\A t \in TaskIds :
          CompletesExchange(t) => BothOrNeither(t, Stored(tasks[t].dec.sid)')]_vars

\* the same for the exchanges during which Redis answered every command
C33_BothOrNeitherAnswered ==
    [][\A t \in TaskIds :
          (CompletesExchange(t) /\ tasks'[t].writes = 2 /\ ~tasks[t].fault)
              => BothOrNeither(t, Stored(tasks[t].dec.sid)')]_vars

LiveLoops == {l \in LoopIds : Live(l)}

\* a call of stop_polling returns in this step
StopReturns ==
    /\ tg'.stop_wait = 0
    /\ \/ tg.stop_wait # 0
       \/ tg.running /\ ~tg'.running
       \/ tg.polling_task # 0 /\ tg'.polling_task = 0

C35_RunningMeansPolling ==
    tg.running => (tg.polling_task # 0 /\ Live(tg.polling_task))

\* C36: initialize("auto") tries the Business API adapter first and starts
\* the Web adapter only if the API adapter failed; after any initialize and
\* restart calls the active adapter is the API adapter if it initialized in
\* the last initialization, otherwise the Web adapter if it started,
\* otherwise none -- never both, never an adapter that failed
C36_ActiveAdapter ==
    /\ wa.active_adapter = (IF wa.last.api = "ok" THEN "api"
                            ELSE IF wa.last.web = "ok" THEN "web" ELSE None)
    /\ wa.last.method = "auto" => /\ (wa.last.api # "skipped")
                                  /\ (wa.last.web # "skipped" <=> wa.last.api = "failed")
    /\ wa.active_adapter = "api" => wa.api_adapter = "ok" /\ wa.web_adapter # "running"
    /\ wa.active_adapter = "web" => wa.web_adapter = "running"
    /\ wa.web_adapter = "running" => wa.active_adapter = "web"

\* a restart in which "auto" was tried, the API adapter failed and the Web
\* adapter started and became the active one
C36_Witness ==
    /\ wa.initialized
    /\ wa.last.restart
    /\ wa.last.method = "auto"
    /\ wa.last.api = "failed"
    /\ wa.active_adapter = "web"

\* C37: when DiscordManager.shutdown on a running bot returns, the adapter's
\* stop (hence bot.close()) has been executed and the running flag is false
C37_ShutdownCloses ==
    (dc.shut /\ dc.was_running) => (dc.stopped /\ dc.closed /\ ~dc.running)

\* the part of C37 the code keeps: the running flag is false, the task is over
C37_ShutdownStopsTask ==
    (dc.shut /\ dc.was_running) => (~dc.running /\ dc.bot_task = "none")

\* C38: DELETE /session/{session_id} for an id without a stored session
\* answers with HTTP 404, and with the success message only when a session
\* was removed
C38_DeleteMissingIs404 ==
    api.call = "clear_session" =>
        /\ (~api.existed => api.status = 404)
        /\ (api.status = 200 => api.existed)

\* the part of C38 the code keeps: success only for a removed session
C38_SuccessOnlyRemoved ==
    api.call = "clear_session" => (api.status = 200 => api.existed /\ api.result)

\* C39: after every _is_new_message call the set holds at most the limit and
\* still contains the id passed to that call, so that an immediately repeated
\* call with the same id returns false
C39_KeepsNewest ==
    checked.id # 0 =>
        /\ Cardinality(processed_messages) <= DedupMax
        /\ checked.id \in processed_messages
        /\ \A o \in is_new_message_within(processed_messages, checked.id, DedupMax, DedupDrop) :
              ~o.new

\* the part of C39 the code keeps: the set stays within the limit
C39_Bounded ==
    Cardinality(processed_messages) <= DedupMax

====
